---- MODULE Spec2Model ----
(***************************************************************************)
(* State-machine model of libdatachannel's impl::Queue<T>                  *)
(* (src/src/impl/queue.hpp), the synchronized callbacks of                 *)
(* include/rtc/utils.hpp and impl::WebSocket (src/src/impl/websocket.cpp). *)
(***************************************************************************)
EXTENDS Integers, Sequences, FiniteSets, TLC

(***************************************************************************)
(* Bounds of the model.                                                    *)
(***************************************************************************)
NumThreads == 2   \* threads calling into one Queue
MaxElems == 3     \* elements ever passed to push/exchange
MaxSize == 2      \* largest byte size of an element
MaxLimit == 1     \* largest mLimit the Queue is constructed with
NumCbThreads == 2 \* threads using the callbacks of one channel
NumSlots == 2     \* callback objects of one channel
NumFuncs == 1     \* functions the user installs
MaxEvents == 2    \* calls made through the callbacks
MaxDepth == 2     \* callback invocations nested on one thread
MaxMsgs == 2      \* messages the WebSocket transport hands up
MaxOpens == 2     \* calls of WebSocket::open
MaxMessageSize == 1  \* maxMessageSize(): the largest message outgoing accepts
RecvQueueLimit == 2  \* the limit mRecvQueue is constructed with
MaxHandles == 2   \* objects created through the C API
MaxLen == 2       \* bytes of a message or of a label
MaxQueued == 1    \* messages waiting in a channel of the C API
MaxCreated == 3   \* handles the emplace functions return in one run
MaxLifetime == 1      \* largest maxPacketLifeTime of an rtcReliability
MaxRetransmits == 1   \* largest maxRetransmits of an rtcReliability
MaxPayloadTypes == 1  \* payload types a track is added with
NumStreams == 2       \* SCTP streams
MaxBuffered == 3      \* bytes buffered on one stream
MaxThreshold == 2     \* largest low threshold of a channel
MaxClockRate == 3     \* largest clock rate of a track, in ticks per second
MaxSampleTicks == 2   \* longest time between two samples, in clock ticks
MaxSampleTime == 8    \* time of the last sample, in clock ticks
NumCallers == 2       \* threads calling rtcReceiveMessage
MaxHandlersMade == 2  \* packetization handlers made
NumClients == 3       \* clients of the streamer
MaxTrackOpens == 2    \* open events per track

Threads == 1..NumThreads

(***************************************************************************)
(* Queue<T>: the elements.  An element carries the order in which it was   *)
(* put into the queue (id), its byte size and the call that put it there   *)
(* (via: push or exchange).  NoElem stands for none.                       *)
(***************************************************************************)
NoElem == [id |-> 0, size |-> 0, via |-> "none"]

VARIABLES
    mLimit,      \* const size_t mLimit
    byteAware,   \* TRUE: constructed with a byte-size amount_function; FALSE: default
    mAmount,     \* size_t mAmount (see AddAmount for the representation)
    mQueue,      \* std::queue<T> mQueue, front first
    mStopping,   \* bool mStopping
    pc,          \* per thread: where it stands in its current Queue call
    pend,        \* per thread: the argument of the call it is blocked in
    ret,         \* the call that returned last: operation, argument, result
    nextId       \* id of the next element put into the queue

qvars == <<mLimit, byteAware, mAmount, mQueue, mStopping, pc, pend, ret, nextId>>

VARIABLES
    callback,    \* per slot: std::function callback, 0 when empty
    stored,      \* per slot: optional<tuple<Args...>> stored, 0 when none, else the event
    owner,       \* per slot: the thread holding the recursive mutex, 0 when free
    depth,       \* per slot: how many times its owner holds the recursive mutex
    stack,       \* per thread: the user functions running on it, innermost last
    delivered,   \* per event: how many times it was passed to a user function
    nextEv       \* the next event

cbvars == <<callback, stored, owner, depth, stack, delivered, nextEv>>

VARIABLES
    state,       \* std::atomic<State> state: Closed, Connecting, Open, Closing
    mIsSecure,   \* bool mIsSecure
    opensLeft,   \* calls of open() the user has still to make
    mTransport,  \* per layer: mTcpTransport, mTlsTransport, mWsTransport is non-null
    run,         \* per layer: its transport is none, new, running or stopped
    phase,       \* per layer: the state its transport reported last
    wpc,         \* per thread: the steps it has still to take in the WebSocket
    task,        \* per thread: the pointers closeTransports took out of the slots
    poolQueue,   \* the tasks enqueued in the ThreadPool
    cbInstalled, \* the callbacks of the channel that are non-null
    cbStored,    \* the callbacks of the channel that hold a stored event
    issued       \* the triggers issued so far

wsCtl == <<state, mIsSecure, opensLeft>>
wsTr == <<mTransport, run, phase>>
wsPool == <<task, poolQueue>>
wsCb == <<cbInstalled, cbStored, issued>>
wsvars == <<wsCtl, wsTr, wpc, wsPool, wsCb>>

VARIABLES
    peerConnectionMap, \* the ids peerConnectionMap has an entry for
    dataChannelMap,    \* the ids dataChannelMap has an entry for
    trackMap,          \* the ids trackMap has an entry for
    userPointerMap,    \* the ids userPointerMap has an entry for
    lastId,            \* int lastId
    channelQueue,      \* per id: the messages its channel has received
    messageCallback,   \* the ids whose channel has a message callback
    returned           \* history: the handles the emplace functions returned, in order

VARIABLES
    webSocketMap,       \* the ids webSocketMap has an entry for
    webSocketServerMap  \* the ids webSocketServerMap has an entry for

VARIABLES
    pcCallbacks,  \* the state callbacks installed: records of peer connection, slot, callback
    created       \* what the data channels and tracks were created with and hold

VARIABLES
    mBufferedAmount,  \* per stream id: the bytes buffered
    lowThreshold      \* per stream id: the low threshold of its channel

VARIABLES
    rtpConfig,   \* clockRate, startTimestamp and timestamp of the track
    sender,      \* previousReportedTimestamp and the report flag of its reporter
    sampleTime   \* the time of the last sample, in clock ticks since the start

VARIABLES
    cleanup, \* rtcCleanup: where the call is, the seconds waited, what it logged
    dispatch,  \* the thread dispatching a message event: where it is in the lambda
    receiving, \* per caller of rtcReceiveMessage: where it is, the message it copied
    rtcpChainableHandlerMap,  \* per id: the handler registered for it, 0 for no entry
    rtpConfigMap,             \* per id: the RTP configuration registered for it, 0 for none
    mMediaHandler,            \* per track: the handler the track uses, 0 for none
    handlersMade,             \* handlers made so far: handler k is built on configuration k
    onChannel, \* the onDataChannel / onTrack lambda: where it is, the handles it
               \* registered and the handles it passed to the user's callback
    clients,   \* streamer example, per client: state, opens seen per kind, start times set
    isRunning  \* streamer example: the stream exists and is running

sctpvars == <<mBufferedAmount, lowThreshold>>
streamvars == <<rtpConfig, sender, sampleTime>>
mediavars == <<rtcpChainableHandlerMap, rtpConfigMap, mMediaHandler, handlersMade>>
clientvars == <<clients, isRunning>>
latevars == <<dispatch, receiving, mediavars, onChannel, clientvars>>
restvars == <<sctpvars, streamvars, cleanup, latevars>>
objvars == <<webSocketMap, webSocketServerMap>>
descvars == <<pcCallbacks, created>>
regvars == <<peerConnectionMap, dataChannelMap, trackMap, userPointerMap, lastId, returned>>
capivars == <<peerConnectionMap, dataChannelMap, trackMap, userPointerMap, lastId,
              channelQueue, messageCallback, returned, objvars, descvars>>

\* what the operations of a Queue leave alone, those of a callback, those of
\* a WebSocket (whose mRecvQueue is the Queue: recvq is what incoming and
\* receive change of it)
qRest == <<cbvars, wsvars, capivars, restvars>>
cbRest == <<qvars, wsvars, capivars, restvars>>
wsRest == <<cbvars, mLimit, byteAware, mStopping, pc, pend, capivars, restvars>>
qIdle == <<mLimit, byteAware, mAmount, mQueue, mStopping, pc, pend, nextId>>
capiRest == <<cbvars, wsvars, qIdle, objvars, descvars, restvars>>
objRest == <<cbvars, wsvars, qIdle, channelQueue, messageCallback, descvars, restvars>>
descRest == <<cbvars, wsvars, qIdle, channelQueue, messageCallback, objvars, restvars>>
sctpRest == <<cbvars, wsvars, qIdle, capivars, streamvars, cleanup, latevars>>
streamRest == <<cbvars, wsvars, qIdle, capivars, sctpvars, cleanup, latevars>>
cleanupRest == <<cbvars, wsvars, qIdle, channelQueue, messageCallback, descvars, sctpvars,
                 streamvars, lastId, returned, latevars>>
dispatchRest == <<cbvars, wsvars, qIdle, capivars, sctpvars, streamvars, cleanup, receiving,
                  mediavars, onChannel, clientvars>>
receiveRest == <<cbvars, wsvars, qIdle, regvars, messageCallback, objvars, descvars, sctpvars,
                 streamvars, cleanup, dispatch, mediavars, onChannel, clientvars>>
mediaRest == <<cbvars, wsvars, qIdle, objvars, descvars, sctpvars, streamvars, cleanup,
               dispatch, receiving, onChannel, clientvars>>
onChannelRest == <<cbvars, wsvars, qIdle, channelQueue, messageCallback, objvars, created,
                   sctpvars, streamvars, cleanup, dispatch, receiving, mediavars, clientvars>>
clientRest == <<cbvars, wsvars, qIdle, capivars, sctpvars, streamvars, cleanup, dispatch,
                receiving, mediavars, onChannel>>
recvq == <<mAmount, mQueue, nextId>>

NoPend == [arg |-> NoElem, timed |-> FALSE]
NoRet == [seq |-> 0, op |-> "none", arg |-> NoElem, res |-> NoElem, ok |-> FALSE]

\* the record of a call returning now; seq flips at every return
Returns(op, arg, res, ok) ==
    [seq |-> 1 - ret.seq, op |-> op, arg |-> arg, res |-> res, ok |-> ok]

\* an element is small or large
Sizes == IF byteAware THEN {1, MaxSize} ELSE {1}

\* mAmountFunction: the default returns 1, a byte-aware one the element's size
AmountFn(e) == IF byteAware THEN e.size ELSE 1

RECURSIVE SumAmount(_)
SumAmount(q) == IF q = <<>> THEN 0 ELSE AmountFn(Head(q)) + SumAmount(Tail(q))

\* size_t arithmetic is modulo 2^64.  mAmount is kept as the representative of
\* its residue class in (-2^63, 2^63): a negative value v stands for the size_t
\* value 2^64 + v that the subtraction wrapped around to.  Two size_t values
\* of this range are equal exactly when their representatives are.
AddAmount(a, d) == a + d
SubAmount(a, d) == a - d

\* the predicates the condition variables wait for
PushPredicate_OffByOne == mLimit = 0 \/ Len(mQueue) <= mLimit \/ mStopping
PushPredicate == mLimit = 0 \/ Len(mQueue) < mLimit \/ mStopping
PopPredicate_NonEmpty == mQueue # <<>>
PopPredicate == mQueue # <<>> \/ mStopping

\* observers
Running == mQueue # <<>> \/ ~mStopping
Empty == mQueue = <<>>
Full == Len(mQueue) >= mLimit
Size == Len(mQueue)
Amount == mAmount

\* threads parked in a condition variable's wait set
PushParked == {t \in Threads : pc[t] = "push_parked"}
PopParked == {t \in Threads : pc[t] \in {"pop_parked", "wait_parked"}}
Woken(p) == CASE p = "push_parked" -> "push_woken"
              [] p = "pop_parked" -> "pop_woken"
              [] p = "wait_parked" -> "wait_woken"
              [] OTHER -> p
Blocked(t) == pc[t] # "idle"

\* popImpl: the element returned and the queue left behind
PopResult_Last(q) == IF q = <<>> THEN NoElem ELSE q[Len(q)]
PopResult(q) == IF q = <<>> THEN NoElem ELSE Head(q)
PopRest_Last(q) == IF q = <<>> THEN q ELSE SubSeq(q, 1, Len(q) - 1)
PopRest(q) == IF q = <<>> THEN q ELSE Tail(q)
PopAmount(a, q) == IF q = <<>> THEN a ELSE SubAmount(a, AmountFn(Head(q)))

\* exchange: the element returned and the queue left behind
ExchangeResult(q, e) == IF q = <<>> THEN NoElem ELSE Head(q)
ExchangeRest_Insert(q, e) == IF q = <<>> THEN <<e>> ELSE <<e>> \o Tail(q)
ExchangeRest(q, e) == IF q = <<>> THEN q ELSE <<e>> \o Tail(q)

\* stop(): notify_all on both condition variables
StopWakes_PopOnly(p) == [t \in Threads |-> IF p[t] \in {"pop_parked", "wait_parked"} THEN Woken(p[t]) ELSE p[t]]
StopWakes(p) == [t \in Threads |-> Woken(p[t])]

QInit ==
    /\ mLimit \in 0..MaxLimit
    /\ byteAware \in BOOLEAN
    /\ mAmount = 0
    /\ mQueue = <<>>
    /\ mStopping = FALSE
    /\ pc = [t \in Threads |-> "idle"]
    /\ pend = [t \in Threads |-> NoPend]
    /\ ret = NoRet
    /\ nextId = 1

\* pushes accepted so far or still blocked: each takes one of the MaxElems elements
PendingPushes == Cardinality({t \in Threads : pc[t] \in {"push_parked", "push_woken"}})

\* a pushImpl that does not test mStopping
PushImpl_NoStopCheck(t, s) ==
    LET e == [id |-> nextId, size |-> s, via |-> "push"] IN
    /\ ret' = Returns("push", e, NoElem, FALSE)
    /\ pend' = [pend EXCEPT ![t] = NoPend]
    /\ nextId' = nextId + 1
    /\ mAmount' = AddAmount(mAmount, AmountFn(e))
    /\ mQueue' = Append(mQueue, e)
    /\ IF PopParked = {}
       THEN pc' = [pc EXCEPT ![t] = "idle"]
       ELSE \E w \in PopParked : pc' = [pc EXCEPT ![t] = "idle", ![w] = Woken(pc[w])]

\* pushImpl under the mutex, by thread t that then returns from push; the
\* element of size s gets its id, the order of its insertion, here
PushImpl(t, s) ==
    LET e == [id |-> nextId, size |-> s, via |-> "push"] IN
    /\ ret' = Returns("push", e, NoElem, FALSE)
    /\ pend' = [pend EXCEPT ![t] = NoPend]
    /\ nextId' = nextId + 1
    /\ IF mStopping
       THEN /\ pc' = [pc EXCEPT ![t] = "idle"]
            /\ UNCHANGED <<mAmount, mQueue>>
       ELSE /\ mAmount' = AddAmount(mAmount, AmountFn(e))
            /\ mQueue' = Append(mQueue, e)
            /\ IF PopParked = {}
               THEN pc' = [pc EXCEPT ![t] = "idle"]
               ELSE \E w \in PopParked : pc' = [pc EXCEPT ![t] = "idle", ![w] = Woken(pc[w])]

\* push from the (re)acquisition of the mutex on: admitted, or parked on mPushCondition
PushBody(t, s) ==
    IF PushPredicate
    THEN PushImpl(t, s)
    ELSE /\ pc' = [pc EXCEPT ![t] = "push_parked"]
         /\ pend' = [pend EXCEPT ![t] = [arg |-> [id |-> 0, size |-> s, via |-> "push"], timed |-> FALSE]]
         /\ UNCHANGED <<mAmount, mQueue, ret, nextId>>

PushCall(t) ==
    /\ pc[t] = "idle"
    /\ nextId + PendingPushes <= MaxElems
    /\ \E s \in Sizes : PushBody(t, s)
    /\ UNCHANGED <<qRest, mLimit, byteAware, mStopping>>

PushResume(t) ==
    /\ pc[t] = "push_woken"
    /\ PushBody(t, pend[t].arg.size)
    /\ UNCHANGED <<qRest, mLimit, byteAware, mStopping>>

\* pop from the (re)acquisition of the mutex on
PopBody(t) ==
    IF PopPredicate
    THEN /\ mAmount' = PopAmount(mAmount, mQueue)
         /\ mQueue' = PopRest(mQueue)
         /\ ret' = Returns("pop", NoElem, PopResult(mQueue), FALSE)
         /\ pc' = [pc EXCEPT ![t] = "idle"]
    ELSE /\ pc' = [pc EXCEPT ![t] = "pop_parked"]
         /\ UNCHANGED <<mAmount, mQueue, ret>>

PopCall(t) ==
    /\ pc[t] = "idle"
    /\ PopBody(t)
    /\ UNCHANGED <<qRest, mLimit, byteAware, mStopping, pend, nextId>>

PopResume(t) ==
    /\ pc[t] = "pop_woken"
    /\ PopBody(t)
    /\ UNCHANGED <<qRest, mLimit, byteAware, mStopping, pend, nextId>>

TryPop(t) ==
    /\ pc[t] = "idle"
    /\ mAmount' = PopAmount(mAmount, mQueue)
    /\ mQueue' = PopRest(mQueue)
    /\ ret' = Returns("tryPop", NoElem, PopResult(mQueue), FALSE)
    /\ UNCHANGED <<qRest, mLimit, byteAware, mStopping, pc, pend, nextId>>

Peek(t) ==
    /\ pc[t] = "idle"
    /\ ret' = Returns("peek", NoElem, IF mQueue # <<>> THEN Head(mQueue) ELSE NoElem, FALSE)
    /\ UNCHANGED <<qRest, mLimit, byteAware, mAmount, mQueue, mStopping, pc, pend, nextId>>

Exchange(t) ==
    /\ pc[t] = "idle"
    /\ nextId + PendingPushes <= MaxElems
    /\ \E s \in Sizes :
        LET e == [id |-> nextId, size |-> s, via |-> "exchange"] IN
        /\ ret' = Returns("exchange", e, ExchangeResult(mQueue, e), FALSE)
        /\ mQueue' = ExchangeRest(mQueue, e)
    /\ nextId' = nextId + 1
    /\ UNCHANGED <<qRest, mLimit, byteAware, mAmount, mStopping, pc, pend>>

\* wait(duration) from the (re)acquisition of the mutex on
WaitBody(t, timed) ==
    IF PopPredicate
    THEN /\ ret' = Returns("wait", NoElem, NoElem, TRUE)
         /\ pc' = [pc EXCEPT ![t] = "idle"]
         /\ pend' = [pend EXCEPT ![t] = NoPend]
    ELSE /\ pc' = [pc EXCEPT ![t] = "wait_parked"]
         /\ pend' = [pend EXCEPT ![t] = [arg |-> NoElem, timed |-> timed]]
         /\ UNCHANGED ret

WaitCall(t) ==
    /\ pc[t] = "idle"
    /\ \E timed \in BOOLEAN : WaitBody(t, timed)
    /\ UNCHANGED <<qRest, mLimit, byteAware, mAmount, mQueue, mStopping, nextId>>

WaitResume(t) ==
    /\ pc[t] = "wait_woken"
    /\ WaitBody(t, pend[t].timed)
    /\ UNCHANGED <<qRest, mLimit, byteAware, mAmount, mQueue, mStopping, nextId>>

\* wait_for: the duration elapses; the call returns what the predicate says
WaitTimeout(t) ==
    /\ pc[t] \in {"wait_parked", "wait_woken"}
    /\ pend[t].timed
    /\ ret' = Returns("wait", NoElem, NoElem, PopPredicate)
    /\ pc' = [pc EXCEPT ![t] = "idle"]
    /\ pend' = [pend EXCEPT ![t] = NoPend]
    /\ UNCHANGED <<qRest, mLimit, byteAware, mAmount, mQueue, mStopping, nextId>>

Stop(t) ==
    /\ pc[t] = "idle"
    /\ mStopping' = TRUE
    /\ ret' = Returns("stop", NoElem, NoElem, FALSE)
    /\ pc' = StopWakes(pc)
    /\ UNCHANGED <<qRest, mLimit, byteAware, mAmount, mQueue, pend, nextId>>

\* a condition variable may wake a waiting thread spuriously
SpuriousWake(t) ==
    /\ pc[t] \in {"push_parked", "pop_parked", "wait_parked"}
    /\ pc' = [pc EXCEPT ![t] = Woken(pc[t])]
    /\ UNCHANGED <<qRest, mLimit, byteAware, mAmount, mQueue, mStopping, pend, ret, nextId>>

QNext ==
    \E t \in Threads :
        \/ PushCall(t)
        \/ PushResume(t)
        \/ PopCall(t)
        \/ PopResume(t)
        \/ TryPop(t)
        \/ Peek(t)
        \/ Exchange(t)
        \/ WaitCall(t)
        \/ WaitResume(t)
        \/ WaitTimeout(t)
        \/ Stop(t)
        \/ SpuriousWake(t)

(***************************************************************************)
(* synchronized_callback and synchronized_stored_callback                  *)
(* (include/rtc/utils.hpp).  A channel has several callback objects        *)
(* (slots), each with its own recursive mutex; slot 1 is a                 *)
(* synchronized_stored_callback, the others are plain                      *)
(* synchronized_callbacks.  A user function runs from its invocation to    *)
(* its return (a frame on the calling thread's stack) and may itself call  *)
(* or set a callback.                                                      *)
(***************************************************************************)
CbThreads == 1..NumCbThreads
Slots == 1..NumSlots
Funcs == 1..NumFuncs
Events == 1..MaxEvents
IsStored(s) == s = 1

CbInit ==
    /\ callback = [s \in Slots |-> 0]
    /\ stored = [s \in Slots |-> 0]
    /\ owner = [s \in Slots |-> 0]
    /\ depth = [s \in Slots |-> 0]
    /\ stack = [t \in CbThreads |-> <<>>]
    /\ delivered = [e \in Events |-> 0]
    /\ nextEv = 1

\* std::lock_guard<std::recursive_mutex>: free, or held by the same thread
CanLock_NoMutex(t, s) == TRUE
CanLock(t, s) == owner[s] \in {0, t}

\* a thread calls in from outside, or from inside a user function it runs
CanEnter(t) == Len(stack[t]) < MaxDepth

Frame(kind, s, f, e) == [kind |-> kind, slot |-> s, func |-> f, ev |-> e]

\* the user function f starts to run on t with event e, under the mutex of s
Invoke(t, kind, s, f, e) ==
    /\ stack' = [stack EXCEPT ![t] = Append(@, Frame(kind, s, f, e))]
    /\ delivered' = [delivered EXCEPT ![e] = @ + 1]
    /\ owner' = [owner EXCEPT ![s] = t]
    /\ depth' = [depth EXCEPT ![s] = @ + 1]

\* operator()(args): call() under the mutex
CbCall(t, s) ==
    /\ CanEnter(t)
    /\ CanLock(t, s)
    /\ nextEv <= MaxEvents
    /\ nextEv' = nextEv + 1
    /\ IF callback[s] # 0
       THEN /\ Invoke(t, "call", s, callback[s], nextEv)
            /\ UNCHANGED <<callback, stored>>
       ELSE /\ stored' = [stored EXCEPT ![s] = IF IsStored(s) THEN nextEv ELSE @]
            /\ UNCHANGED <<callback, owner, depth, stack, delivered>>
    /\ UNCHANGED cbRest

\* operator=(func): set() under the mutex
CbSet(t, s, f) ==
    /\ CanEnter(t)
    /\ CanLock(t, s)
    /\ callback' = [callback EXCEPT ![s] = f]
    /\ IF IsStored(s) /\ f # 0 /\ stored[s] # 0
       THEN /\ Invoke(t, "replay", s, f, stored[s])
            /\ UNCHANGED <<stored, nextEv>>
       ELSE UNCHANGED <<stored, owner, depth, stack, delivered, nextEv>>
    /\ UNCHANGED cbRest

\* the innermost user function on t returns; set() then resets stored; the
\* lock_guard releases the mutex
CbReturn(t) ==
    /\ stack[t] # <<>>
    /\ LET fr == stack[t][Len(stack[t])] IN
        /\ stack' = [stack EXCEPT ![t] = SubSeq(@, 1, Len(@) - 1)]
        /\ stored' = [stored EXCEPT ![fr.slot] = IF fr.kind = "replay" THEN 0 ELSE @]
        /\ depth' = [depth EXCEPT ![fr.slot] = @ - 1]
        /\ owner' = [owner EXCEPT ![fr.slot] = IF depth[fr.slot] = 1 THEN 0 ELSE @]
    /\ UNCHANGED <<callback, delivered, nextEv, cbRest>>

CbNext ==
    \E t \in CbThreads :
        \/ \E s \in Slots : CbCall(t, s)
        \/ \E s \in Slots, f \in Funcs \cup {0} : CbSet(t, s, f)
        \/ CbReturn(t)

(***************************************************************************)
(* impl::WebSocket (src/src/impl/websocket.cpp) through the life of one    *)
(* connection.  The user thread calls open, close, receive and installs    *)
(* callbacks; the TCP and the TLS transport each deliver their events on a *)
(* thread of their own, the WebSocket transport on the thread of the       *)
(* transport below it; a pool thread runs the tasks closeTransports        *)
(* enqueues.  A thread inside a member function holds in wpc the steps it  *)
(* has still to take, one step per access to the shared state.  Channel    *)
(* (triggerOpen, triggerClosed, triggerError, triggerAvailable,            *)
(* resetCallbacks, the callback setters) and the transports are not part   *)
(* of the sources at hand; they follow the specification: callbacks are    *)
(* synchronized callbacks, those of onOpen and onAvailable with a stored   *)
(* missed event, and a transport moves Connecting -> Connected or Failed,  *)
(* Connected -> Disconnected.                                              *)
(***************************************************************************)
WsThreads == {"user", "tcp", "tls", "pool"}
Layers == {"tcp", "tls", "ws"}
Callbacks == {"open", "closed", "error", "available"}
StoredCallbacks == {"open", "available"}
NoTask == [l \in Layers |-> FALSE]

WsInit ==
    /\ state = "Closed"
    /\ mIsSecure = FALSE
    /\ opensLeft \in 0..MaxOpens
    /\ mTransport = [l \in Layers |-> FALSE]
    /\ run = [l \in Layers |-> "none"]
    /\ phase = [l \in Layers |-> "none"]
    /\ wpc = [t \in WsThreads |-> <<>>]
    /\ task = [t \in WsThreads |-> NoTask]
    /\ poolQueue = <<>>
    /\ cbInstalled = {}
    /\ cbStored = {}
    /\ issued = {}

\* thread t stands before step <<f, s>> of member function f
At(t, f, s) == wpc[t] # <<>> /\ Head(wpc[t]) = <<f, s>>
\* t has taken the step and goes on with ops, then with what it had left
Goto(t, ops) == wpc' = [wpc EXCEPT ![t] = ops \o Tail(wpc[t])]
\* throw inside the try block of set/init...Transport: the catch clause
Catch == <<<<"remoteClose", "check">>, <<"init", "rethrow">>>>
\* the thread the events of the transport of layer l arrive on
ThreadOf(l) == IF l = "ws" THEN (IF mIsSecure THEN "tls" ELSE "tcp") ELSE l
\* the transport below the one of layer l
Lower(l) == IF l = "ws" /\ mIsSecure THEN "tls" ELSE "tcp"

(* ---- open, lines 56-111 ---- *)
\* a URL as the regular expression of open() splits it: m[2] and m[10]
Urls == [scheme : {"", "ws", "wss", "http"}, host : {"", "h"}]
\* if (scheme.empty()) scheme = "ws"
Scheme(u) == IF u.scheme = "" THEN "ws" ELSE u.scheme
\* neither "Invalid WebSocket URL" nor "Invalid WebSocket scheme" is thrown
UrlValid(u) == u.host # "" /\ Scheme(u) \in {"ws", "wss"}
\* the result of a call of the user's: Returns with a URL as the argument
UserReturns(op, u, ok) == [Returns(op, NoElem, NoElem, ok) EXCEPT !.arg = u]

\* every transport object still alive is the one its slot holds, and no
\* handler of a transport is under way: open() constructs new objects then
NoOrphans ==
    /\ \A l \in Layers : mTransport[l] \/ run[l] \in {"none", "stopped"}
    /\ \A t \in WsThreads \ {"user"} : wpc[t] = <<>>
    /\ poolQueue = <<>>

\* open(url) up to the URL stored: rejected unless Closed, or for a bad URL
UserOpen ==
    /\ wpc["user"] = <<>>
    /\ opensLeft > 0
    /\ NoOrphans
    /\ opensLeft' = opensLeft - 1
    /\ \E u \in Urls :
         IF state # "Closed" \/ ~UrlValid(u)
         THEN /\ ret' = UserReturns("open", u, FALSE)
              /\ UNCHANGED <<mIsSecure, wpc>>
         ELSE /\ mIsSecure' = (Scheme(u) # "ws")
              /\ wpc' = [wpc EXCEPT !["user"] = <<<<"open", "setConnecting">>>>]
              /\ ret' = [ret EXCEPT !.arg = u]
    /\ UNCHANGED <<wsRest, recvq, state, wsTr, wsPool, wsCb>>

OpenSetConnecting(t) ==
    /\ At(t, "open", "setConnecting")
    /\ state' = "Connecting"
    /\ Goto(t, <<<<"tcp", "load">>>>)
    /\ UNCHANGED <<wsRest, recvq, ret, mIsSecure, opensLeft, wsTr, wsPool, wsCb>>

(* ---- setTcpTransport, initTlsTransport, initWsTransport, lines 184-363 ---- *)
\* the test of the slot left out: a transport is created whatever the slot holds
InitLoad_NoCheck(t, l) ==
    /\ At(t, l, "load")
    /\ Goto(t, IF l = "tcp" THEN <<<<l, "store">>>> ELSE <<<<l, "lower">>>>)
    /\ UNCHANGED <<wsRest, recvq, ret, wsCtl, wsTr, wsPool, wsCb>>

\* the slot already holds a transport: setTcpTransport throws, init... returns it
InitLoad(t, l) ==
    /\ At(t, l, "load")
    /\ IF mTransport[l]
       THEN Goto(t, IF l = "tcp" THEN Catch ELSE <<>>)
       ELSE Goto(t, IF l = "tcp" THEN <<<<l, "store">>>> ELSE <<<<l, "lower">>>>)
    /\ UNCHANGED <<wsRest, recvq, ret, wsCtl, wsTr, wsPool, wsCb>>

\* the transport below is loaded from its slot; none: throw
InitLower(t, l) ==
    /\ At(t, l, "lower")
    /\ Goto(t, IF mTransport[Lower(l)] THEN <<<<l, "store">>>> ELSE Catch)
    /\ UNCHANGED <<wsRest, recvq, ret, wsCtl, wsTr, wsPool, wsCb>>

\* the new transport is stored in its slot
InitStore(t, l) ==
    /\ At(t, l, "store")
    /\ mTransport' = [mTransport EXCEPT ![l] = TRUE]
    /\ run' = [run EXCEPT ![l] = "new"]
    /\ phase' = [phase EXCEPT ![l] = "none"]
    /\ Goto(t, <<<<l, "check">>>>)
    /\ UNCHANGED <<wsRest, recvq, ret, wsCtl, wsPool, wsCb>>

InitCheck(t, l) ==
    /\ At(t, l, "check")
    /\ Goto(t, IF state = "Closed" THEN <<<<l, "unstore">>>> ELSE <<<<l, "start">>>>)
    /\ UNCHANGED <<wsRest, recvq, ret, wsCtl, wsTr, wsPool, wsCb>>

InitUnstore(t, l) ==
    /\ At(t, l, "unstore")
    /\ mTransport' = [mTransport EXCEPT ![l] = FALSE]
    /\ Goto(t, Catch)
    /\ UNCHANGED <<wsRest, recvq, ret, wsCtl, run, phase, wsPool, wsCb>>

\* transport->start(); a transport stopped in the meantime stays stopped
InitStart(t, l) ==
    /\ At(t, l, "start")
    /\ run' = [run EXCEPT ![l] = IF @ = "new" THEN "running" ELSE @]
    /\ phase' = [phase EXCEPT ![l] = IF run[l] = "new" THEN "Connecting" ELSE @]
    /\ ret' = IF t = "user" THEN UserReturns("open", ret.arg, TRUE) ELSE ret
    /\ Goto(t, <<>>)
    /\ UNCHANGED <<wsRest, recvq, wsCtl, mTransport, wsPool, wsCb>>

\* the catch clause rethrows after remoteClose(): open fails with runtime_error
InitRethrow(t) ==
    /\ At(t, "init", "rethrow")
    /\ ret' = IF t = "user" THEN UserReturns("open", ret.arg, FALSE) ELSE ret
    /\ Goto(t, <<>>)
    /\ UNCHANGED <<wsRest, recvq, wsCtl, wsTr, wsPool, wsCb>>

(* ---- close and remoteClose, lines 113-130 ---- *)
UserClose ==
    /\ wpc["user"] = <<>>
    /\ wpc' = [wpc EXCEPT !["user"] = <<<<"close", "load">>>>]
    /\ UNCHANGED <<wsRest, recvq, ret, wsCtl, wsTr, wsPool, wsCb>>

\* auto s = state.load(); if (s == Connecting || s == Open)
CloseLoad(t) ==
    /\ At(t, "close", "load")
    /\ Goto(t, IF state \in {"Connecting", "Open"}
               THEN <<<<"close", "setClosing">>, <<"close", "loadWs">>>>
               ELSE <<>>)
    /\ UNCHANGED <<wsRest, recvq, ret, wsCtl, wsTr, wsPool, wsCb>>

CloseSetClosing(t) ==
    /\ At(t, "close", "setClosing")
    /\ state' = "Closing"
    /\ Goto(t, <<>>)
    /\ UNCHANGED <<wsRest, recvq, ret, mIsSecure, opensLeft, wsTr, wsPool, wsCb>>

\* if (transport = mWsTransport) transport->close(); else changeState(Closed).
\* A WebSocket transport asked to close reports what follows on its own thread.
CloseLoadWs(t) ==
    /\ At(t, "close", "loadWs")
    /\ Goto(t, IF mTransport["ws"] THEN <<>> ELSE <<<<"close", "setClosed">>>>)
    /\ UNCHANGED <<wsRest, recvq, ret, wsCtl, wsTr, wsPool, wsCb>>

CloseSetClosed(t) ==
    /\ At(t, "close", "setClosed")
    /\ state' = "Closed"
    /\ Goto(t, <<>>)
    /\ UNCHANGED <<wsRest, recvq, ret, mIsSecure, opensLeft, wsTr, wsPool, wsCb>>

\* if (state.load() != Closed) { close(); closeTransports(); }
RemoteCloseCheck(t) ==
    /\ At(t, "remoteClose", "check")
    /\ Goto(t, IF state # "Closed"
               THEN <<<<"close", "load">>, <<"closeTransports", "check">>>>
               ELSE <<>>)
    /\ UNCHANGED <<wsRest, recvq, ret, wsCtl, wsTr, wsPool, wsCb>>

(* ---- closeTransports, lines 381-408 ---- *)
CloseTransportsTail ==
    <<<<"closeTransports", "resetCallbacks">>, <<"closeTransports", "ws">>,
      <<"closeTransports", "tls">>, <<"closeTransports", "tcp">>,
      <<"closeTransports", "enqueue">>>>

CloseTransportsCheck(t) ==
    /\ At(t, "closeTransports", "check")
    /\ Goto(t, IF state # "Closed"
               THEN <<<<"closeTransports", "setClosed">>, <<"trigger", "closed">>>> \o CloseTransportsTail
               ELSE CloseTransportsTail)
    /\ UNCHANGED <<wsRest, recvq, ret, wsCtl, wsTr, wsPool, wsCb>>

CloseTransportsSetClosed(t) ==
    /\ At(t, "closeTransports", "setClosed")
    /\ state' = "Closed"
    /\ Goto(t, <<>>)
    /\ UNCHANGED <<wsRest, recvq, ret, mIsSecure, opensLeft, wsTr, wsPool, wsCb>>

\* Channel::resetCallbacks: every callback is set to null; a stored event stays
ResetCallbacks(t) ==
    /\ At(t, "closeTransports", "resetCallbacks")
    /\ cbInstalled' = {}
    /\ Goto(t, <<>>)
    /\ UNCHANGED <<wsRest, recvq, ret, wsCtl, wsTr, wsPool, cbStored, issued>>

\* atomic_exchange of one transport slot with null
CloseTransportsExchange(t, l) ==
    /\ At(t, "closeTransports", l)
    /\ task' = [task EXCEPT ![t][l] = mTransport[l]]
    /\ mTransport' = [mTransport EXCEPT ![l] = FALSE]
    /\ Goto(t, <<>>)
    /\ UNCHANGED <<wsRest, recvq, ret, wsCtl, run, phase, poolQueue, wsCb>>

\* ThreadPool::Instance().enqueue of the task holding the three pointers
CloseTransportsEnqueue(t) ==
    /\ At(t, "closeTransports", "enqueue")
    /\ poolQueue' = Append(poolQueue, task[t])
    /\ task' = [task EXCEPT ![t] = NoTask]
    /\ Goto(t, <<>>)
    /\ UNCHANGED <<wsRest, recvq, ret, wsCtl, wsTr, wsCb>>

\* the pool thread runs the task: stop() on each transport it holds; a stopped
\* transport delivers no further event
PoolRun ==
    /\ wpc["pool"] = <<>>
    /\ poolQueue # <<>>
    /\ run' = [l \in Layers |-> IF Head(poolQueue)[l] THEN "stopped" ELSE run[l]]
    /\ poolQueue' = Tail(poolQueue)
    /\ UNCHANGED <<wsRest, recvq, ret, wsCtl, mTransport, phase, wpc, task, wsCb>>

(* ---- Channel: the triggers and the callback setters ---- *)
\* trigger...(): the callback runs if installed; else onOpen and onAvailable store the event
Trigger(t, c) ==
    /\ At(t, "trigger", c)
    /\ issued' = issued \cup {c}
    /\ cbStored' = IF c \notin cbInstalled /\ c \in StoredCallbacks THEN cbStored \cup {c} ELSE cbStored
    /\ Goto(t, <<>>)
    /\ UNCHANGED <<wsRest, recvq, ret, wsCtl, wsTr, wsPool, cbInstalled>>

\* onOpen(cb), onClosed(cb), onError(cb), onAvailable(cb) by the user, one
\* after the other: a stored event is passed to the new callback at once
UserSetCallbacks ==
    /\ wpc["user"] = <<>>
    /\ cbInstalled # Callbacks
    /\ cbInstalled' = Callbacks
    /\ cbStored' = {}
    /\ UNCHANGED <<wsRest, recvq, ret, wsCtl, wsTr, wsPool, wpc, issued>>

(* ---- the transports' state callbacks, lines 195-217, 245-264, 322-345 ---- *)
\* a TCP callback that takes the connection for open once it has started
\* the WebSocket transport
OnStateChange_EarlyOpen(l, s) ==
    CASE s = "Connected" /\ l = "tcp" ->
             IF mIsSecure THEN <<<<"tls", "load">>>>
             ELSE <<<<"ws", "load">>, <<"ws", "connected">>>>
      [] s = "Connected" /\ l = "tls" -> <<<<"ws", "load">>>>
      [] s = "Connected" /\ l = "ws" -> <<<<"ws", "connected">>>>
      [] s = "Failed" -> <<<<"trigger", "error">>, <<"remoteClose", "check">>>>
      [] s = "Disconnected" -> <<<<"remoteClose", "check">>>>
\* what the state callback of the transport of layer l does with the new state
OnStateChange(l, s) ==
    CASE s = "Connected" /\ l = "tcp" -> <<<<IF mIsSecure THEN "tls" ELSE "ws", "load">>>>
      [] s = "Connected" /\ l = "tls" -> <<<<"ws", "load">>>>
      [] s = "Connected" /\ l = "ws" -> <<<<"ws", "connected">>>>
      [] s = "Failed" -> <<<<"trigger", "error">>, <<"remoteClose", "check">>>>
      [] s = "Disconnected" -> <<<<"remoteClose", "check">>>>

\* a running transport changes state on its thread and calls its state callback
TransportEvent(l, s) ==
    /\ wpc[ThreadOf(l)] = <<>>
    /\ run[l] = "running"
    /\ \/ phase[l] = "Connecting" /\ s \in {"Connected", "Failed"}
       \/ phase[l] = "Connected" /\ s = "Disconnected"
    /\ phase' = [phase EXCEPT ![l] = s]
    /\ wpc' = [wpc EXCEPT ![ThreadOf(l)] = OnStateChange(l, s)]
    /\ UNCHANGED <<wsRest, recvq, ret, wsCtl, mTransport, run, wsPool, wsCb>>

\* Connected of the WebSocket transport: if (state == Connecting)
WsConnectedCheck(t) ==
    /\ At(t, "ws", "connected")
    /\ Goto(t, IF state = "Connecting"
               THEN <<<<"ws", "setOpen">>, <<"trigger", "open">>>>
               ELSE <<>>)
    /\ UNCHANGED <<wsRest, recvq, ret, wsCtl, wsTr, wsPool, wsCb>>

WsSetOpen(t) ==
    /\ At(t, "ws", "setOpen")
    /\ state' = "Open"
    /\ Goto(t, <<>>)
    /\ UNCHANGED <<wsRest, recvq, ret, mIsSecure, opensLeft, wsTr, wsPool, wsCb>>

(* ---- outgoing, lines 162-170 ---- *)
\* the message of a call of outgoing, and what became of it
OutMessage(n) == [id |-> 0, size |-> n, via |-> "outgoing"]
Outcome(o) == [NoElem EXCEPT !.via = o]

\* outgoing(message) up to the first test: if (state != State::Open || ...
UserOutgoing(n) ==
    /\ wpc["user"] = <<>>
    /\ IF state # "Open"
       THEN /\ ret' = Returns("outgoing", OutMessage(n), Outcome("rejected"), FALSE)
            /\ UNCHANGED wpc
       ELSE /\ ret' = [ret EXCEPT !.arg = OutMessage(n)]
            /\ wpc' = [wpc EXCEPT !["user"] = <<<<"outgoing", "checkWs">>>>]
    /\ UNCHANGED <<wsRest, recvq, wsCtl, wsTr, wsPool, wsCb>>

\* ... || !mWsTransport) throw; if (message->size() > maxMessageSize()) throw
OutgoingCheckWs(t) ==
    /\ At(t, "outgoing", "checkWs")
    /\ IF ~mTransport["ws"] \/ ret.arg.size > MaxMessageSize
       THEN /\ ret' = Returns("outgoing", ret.arg, Outcome("rejected"), FALSE)
            /\ Goto(t, <<>>)
       ELSE /\ Goto(t, <<<<"outgoing", "send">>>>)
            /\ UNCHANGED ret
    /\ UNCHANGED <<wsRest, recvq, wsCtl, wsTr, wsPool, wsCb>>

\* return mWsTransport->send(message): the pointer is read again, with no
\* lock; through a pointer closeTransports has reset in between the call is
\* undefined, and either reaches the transport object or ends the program
OutgoingSend(t) ==
    /\ At(t, "outgoing", "send")
    /\ \E o \in IF mTransport["ws"] THEN {"sent"} ELSE {"sent", "crashed"} :
         ret' = Returns("outgoing", ret.arg, Outcome(o), o = "sent")
    /\ Goto(t, <<>>)
    /\ UNCHANGED <<wsRest, recvq, wsCtl, wsTr, wsPool, wsCb>>

(* ---- incoming, lines 172-182 ---- *)
\* the types of the messages incoming() enqueues, and a message of one byte
DataTypes == {"String", "Binary"}
Message(i, ty) == [id |-> i, size |-> 1, via |-> "push", type |-> ty]
\* the connected WebSocket transport hands a message up: a data message
\* (String or Binary) or a Control message, or null when the connection ends
Incoming(m) ==
    /\ wpc[ThreadOf("ws")] = <<>>
    /\ run["ws"] = "running"
    /\ IF m = "null"
       THEN /\ phase["ws"] \in {"Connected", "Disconnected"}
            /\ phase' = [phase EXCEPT !["ws"] = "Ended"]
            /\ wpc' = [wpc EXCEPT ![ThreadOf("ws")] = <<<<"remoteClose", "check">>>>]
       ELSE /\ phase["ws"] = "Connected"
            /\ nextId <= MaxMsgs
            /\ wpc' = [wpc EXCEPT ![ThreadOf("ws")] =
                         IF m = "data"
                         THEN <<<<"incoming", "push">>, <<"trigger", "available">>>>
                         ELSE <<>>]
            /\ UNCHANGED phase
    /\ UNCHANGED <<wsRest, recvq, ret, wsCtl, mTransport, run, wsPool, wsCb>>

\* mRecvQueue.push(message): admitted, or the thread parks on mPushCondition
IncomingPush(t) ==
    /\ At(t, "incoming", "push")
    /\ IF PushPredicate
       THEN /\ \E ty \in DataTypes : mQueue' = Append(mQueue, Message(nextId, ty))
            /\ mAmount' = AddAmount(mAmount, 1)
            /\ nextId' = nextId + 1
            /\ Goto(t, <<>>)
       ELSE /\ Goto(t, <<<<"incoming", "parked">>>>)
            /\ UNCHANGED recvq
    /\ UNCHANGED <<wsRest, ret, wsCtl, wsTr, wsPool, wsCb>>

\* only a spurious wake-up lets the parked thread test the predicate again
IncomingWake(t) ==
    /\ At(t, "incoming", "parked")
    /\ Goto(t, <<<<"incoming", "push">>>>)
    /\ UNCHANGED <<wsRest, recvq, ret, wsCtl, wsTr, wsPool, wsCb>>

(* ---- receive and peek, lines 138-156 ---- *)
\* Queue::tryPop and Queue::peek take the mutex and wait for no condition
TryPopPredicate_Pop == PopPredicate
TryPopPredicate == TRUE

\* the loops of receive and peek: the Control messages at the head are popped
RECURSIVE SkipControl(_)
SkipControl(q) ==
    IF q # <<>> /\ Head(q).type = "Control" THEN SkipControl(Tail(q)) ELSE q
\* mAmount once the first n elements of q are popped
RECURSIVE PopAmountN(_, _, _)
PopAmountN(a, q, n) ==
    IF n = 0 THEN a ELSE PopAmountN(PopAmount(a, q), PopRest(q), n - 1)

\* to_variant(std::move(*message)) takes the message by rvalue reference: it
\* may leave the object as it is or move its bytes out and leave it empty
ToVariantLeaves(m) == {m, [m EXCEPT !.size = 0]}

UserReceive ==
    /\ wpc["user"] = <<>>
    /\ wpc' = [wpc EXCEPT !["user"] = <<<<"receive", "tryPop">>>>]
    /\ UNCHANGED <<wsRest, recvq, ret, wsCtl, wsTr, wsPool, wsCb>>

\* while (next = mRecvQueue.tryPop()) if (type != Control) return to_variant(...)
ReceiveTryPop(t) ==
    /\ At(t, "receive", "tryPop")
    /\ TryPopPredicate
    /\ LET q == SkipControl(mQueue) IN
         /\ ret' = Returns("receive", NoElem, PopResult(q), q # <<>>)
         /\ mQueue' = PopRest(q)
         /\ mAmount' = PopAmountN(mAmount, mQueue, Len(mQueue) - Len(PopRest(q)))
    /\ Goto(t, <<>>)
    /\ UNCHANGED <<wsRest, nextId, wsCtl, wsTr, wsPool, wsCb>>

UserPeek ==
    /\ wpc["user"] = <<>>
    /\ wpc' = [wpc EXCEPT !["user"] = <<<<"peek", "peek">>>>]
    /\ UNCHANGED <<wsRest, recvq, ret, wsCtl, wsTr, wsPool, wsCb>>

\* while (next = mRecvQueue.peek()) if (type != Control) return
\* to_variant(std::move(*message)); else mRecvQueue.tryPop(): the message
\* returned stays at the head of the queue, as to_variant left it
PeekFront(t) ==
    /\ At(t, "peek", "peek")
    /\ TryPopPredicate
    /\ LET q == SkipControl(mQueue) IN
         /\ ret' = Returns("peek", NoElem, PopResult(q), q # <<>>)
         /\ IF q = <<>> THEN mQueue' = q
            ELSE \E m \in ToVariantLeaves(Head(q)) : mQueue' = <<m>> \o Tail(q)
         /\ mAmount' = PopAmountN(mAmount, mQueue, Len(mQueue) - Len(q))
    /\ Goto(t, <<>>)
    /\ UNCHANGED <<wsRest, nextId, wsCtl, wsTr, wsPool, wsCb>>

WsNext ==
    \/ UserOpen
    \/ UserClose
    \/ UserSetCallbacks
    \/ \E l \in Layers, s \in {"Connected", "Failed", "Disconnected"} : TransportEvent(l, s)
    \/ \E m \in {"data", "control", "null"} : Incoming(m)
    \/ PoolRun
    \/ \E t \in WsThreads :
        \/ OpenSetConnecting(t)
        \/ \E l \in Layers : \/ InitLoad(t, l)
                             \/ InitLower(t, l)
                             \/ InitStore(t, l)
                             \/ InitCheck(t, l)
                             \/ InitUnstore(t, l)
                             \/ InitStart(t, l)
        \/ InitRethrow(t)
        \/ CloseLoad(t)
        \/ CloseSetClosing(t)
        \/ CloseLoadWs(t)
        \/ CloseSetClosed(t)
        \/ RemoteCloseCheck(t)
        \/ CloseTransportsCheck(t)
        \/ CloseTransportsSetClosed(t)
        \/ ResetCallbacks(t)
        \/ \E l \in Layers : CloseTransportsExchange(t, l)
        \/ CloseTransportsEnqueue(t)
        \/ \E c \in Callbacks : Trigger(t, c)
        \/ WsConnectedCheck(t)
        \/ WsSetOpen(t)
        \/ IncomingPush(t)
        \/ IncomingWake(t)

(* ------------------------------------------------------------------------ *)
(* The C API, src/capi.cpp: integer handles in registries guarded by one    *)
(* mutex, every function body run under wrap.  A call is one step of the    *)
(* single C thread; ret records its arguments and what it gave back.        *)
(* ------------------------------------------------------------------------ *)
RTC_ERR_SUCCESS == 0
RTC_ERR_INVALID == -1
RTC_ERR_FAILURE == -2
RTC_ERR_NOT_AVAIL == -3
RTC_ERR_TOO_SMALL == -4

Ids == 1..MaxHandles
Lens == 0..MaxLen
BufferSizes == 0..(MaxLen + 1)
ApiMessages == [type : DataTypes, len : Lens]

CapiInit ==
    /\ peerConnectionMap = {} /\ dataChannelMap = {} /\ trackMap = {}
    /\ userPointerMap = {} /\ lastId = 0
    /\ channelQueue = [i \in Ids |-> <<>>]
    /\ messageCallback = {}
    /\ returned = <<>>
    /\ webSocketMap = {} /\ webSocketServerMap = {}
    /\ pcCallbacks = {} /\ created = {}

\* wrap: the value of func(), RTC_ERR_INVALID for std::invalid_argument,
\* RTC_ERR_FAILURE for any other std::exception
Wrap(exc, val) ==
    CASE exc = "none" -> val
      [] exc = "invalid_argument" -> RTC_ERR_INVALID
      [] OTHER -> RTC_ERR_FAILURE

\* getChannel: a data channel or a track (no WebSocket is registered here)
ChannelIds == dataChannelMap \cup trackMap

\* copyAndReturn for a string (the terminator counts) and for a binary
Required(ty, n) == IF ty = "String" THEN n + 1 ELSE n
CopyAndReturn_BufferSize(ty, n, buffer, size) ==
    IF ~buffer THEN Required(ty, n)
    ELSE IF size < Required(ty, n) THEN RTC_ERR_TOO_SMALL ELSE size
CopyAndReturn(ty, n, buffer, size) ==
    IF ~buffer THEN Required(ty, n)
    ELSE IF size < Required(ty, n) THEN RTC_ERR_TOO_SMALL ELSE Required(ty, n)

\* the size the message callback is given: int(b.size()), -int(s.size() + 1)
MessageSize_NoTerminator(m) == IF m.type = "String" THEN 0 - m.len ELSE m.len
MessageSize(m) == IF m.type = "String" THEN 0 - (m.len + 1) ELSE m.len

\* the size() of a value after std::move(value) was passed by value: a vector
\* is left empty, a string in a valid but unspecified state
MovedFromSizes(ty, n) == IF ty = "String" THEN {0, n} ELSE {0}

Abs(n) == IF n < 0 THEN 0 - n ELSE n

\* rtcCreatePeerConnection: emplacePeerConnection
RtcCreatePeerConnection ==
    /\ lastId < MaxHandles
    /\ lastId' = lastId + 1
    /\ peerConnectionMap' = peerConnectionMap \cup {lastId'}
    /\ userPointerMap' = userPointerMap \cup {lastId'}
    /\ returned' = Append(returned, lastId')
    /\ ret' = Returns("rtcCreatePeerConnection", [id |-> 0], [rc |-> lastId'], TRUE)
    /\ UNCHANGED <<capiRest, dataChannelMap, trackMap, channelQueue, messageCallback>>

\* rtcCreateDataChannelEx and rtcAddTrack: getPeerConnection, then the peer
\* connection creates the object (it may throw), then emplace
RtcCreateChannel(p, kind) ==
    /\ lastId < MaxHandles
    /\ \E exc \in IF p \in peerConnectionMap THEN {"none", "runtime_error"}
                   ELSE {"invalid_argument"} :
         /\ ret' = Returns(kind, [id |-> p], [rc |-> Wrap(exc, lastId + 1)], exc = "none")
         /\ IF exc = "none"
            THEN /\ lastId' = lastId + 1
                 /\ dataChannelMap' = IF kind = "rtcCreateDataChannel"
                                       THEN dataChannelMap \cup {lastId'} ELSE dataChannelMap
                 /\ trackMap' = IF kind = "rtcAddTrack"
                                 THEN trackMap \cup {lastId'} ELSE trackMap
                 /\ userPointerMap' = userPointerMap \cup {lastId'}
                 /\ returned' = Append(returned, lastId')
            ELSE UNCHANGED <<lastId, dataChannelMap, trackMap, userPointerMap, returned>>
    /\ UNCHANGED <<capiRest, peerConnectionMap, channelQueue, messageCallback>>

\* rtcSetUserPointer: userPointerMap[i] = ptr, under no wrap and with no lookup;
\* the function is void, and rc 0 stands for its plain return
RtcSetUserPointer(i) ==
    /\ userPointerMap' = userPointerMap \cup {i}
    /\ ret' = Returns("rtcSetUserPointer", [id |-> i], [rc |-> RTC_ERR_SUCCESS], TRUE)
    /\ UNCHANGED <<capiRest, returned, peerConnectionMap, dataChannelMap, trackMap, lastId,
                   channelQueue, messageCallback>>

\* rtcDeletePeerConnection: getPeerConnection, close, erasePeerConnection
RtcDeletePeerConnection(i) ==
    /\ LET exc == IF i \in peerConnectionMap THEN "none" ELSE "invalid_argument" IN
         /\ ret' = Returns("rtcDeletePeerConnection", [id |-> i],
                           [rc |-> Wrap(exc, RTC_ERR_SUCCESS)], exc = "none")
         /\ peerConnectionMap' = peerConnectionMap \ {i}
         /\ userPointerMap' = IF exc = "none" THEN userPointerMap \ {i} ELSE userPointerMap
    /\ UNCHANGED <<capiRest, returned, dataChannelMap, trackMap, lastId, channelQueue, messageCallback>>

\* rtcDelete: getChannel, close, eraseChannel; the channel goes with its entry
RtcDelete(i) ==
    /\ LET exc == IF i \in ChannelIds THEN "none" ELSE "invalid_argument" IN
         /\ ret' = Returns("rtcDelete", [id |-> i], [rc |-> Wrap(exc, RTC_ERR_SUCCESS)],
                           exc = "none")
         /\ dataChannelMap' = dataChannelMap \ {i}
         /\ trackMap' = trackMap \ {i}
         /\ userPointerMap' = IF exc = "none" THEN userPointerMap \ {i} ELSE userPointerMap
         /\ channelQueue' = IF exc = "none" THEN [channelQueue EXCEPT ![i] = <<>>]
                             ELSE channelQueue
         /\ messageCallback' = IF exc = "none" THEN messageCallback \ {i} ELSE messageCallback
    /\ UNCHANGED <<capiRest, returned, peerConnectionMap, lastId>>

\* rtcGetDataChannelLabel: getDataChannel, copyAndReturn(label, buffer, size)
RtcGetDataChannelLabel(i, buffer, size) ==
    /\ \E n \in Lens :
         LET exc == IF i \in dataChannelMap THEN "none" ELSE "invalid_argument"
             rc == Wrap(exc, CopyAndReturn("String", n, buffer, size))
         IN ret' = Returns("rtcGetDataChannelLabel",
                           [id |-> i, buffer |-> buffer, size |-> size, len |-> n],
                           [rc |-> rc, copied |-> buffer /\ rc >= 0], exc = "none")
    /\ UNCHANGED <<capiRest, capivars>>

\* rtcSetMessageCallback: getChannel, onMessage(the two lambdas) or onMessage(nullptr)
RtcSetMessageCallback(i, cb) ==
    /\ LET exc == IF i \in ChannelIds THEN "none" ELSE "invalid_argument" IN
         /\ ret' = Returns("rtcSetMessageCallback", [id |-> i],
                           [rc |-> Wrap(exc, RTC_ERR_SUCCESS)], exc = "none")
         /\ messageCallback' = IF exc # "none" THEN messageCallback
                                ELSE IF cb THEN messageCallback \cup {i}
                                ELSE messageCallback \ {i}
    /\ UNCHANGED <<capiRest, returned, peerConnectionMap, dataChannelMap, trackMap, userPointerMap,
                   lastId, channelQueue>>

\* a message arrives on a registered channel: the lambda of
\* rtcSetMessageCallback calls cb if the id has a user pointer entry; with no
\* callback the message waits in the channel
MessageArrives(i, m) ==
    /\ i \in ChannelIds
    /\ IF i \in messageCallback
       THEN /\ i \in userPointerMap
            /\ ret' = Returns("messageCallback", [id |-> i, msg |-> m],
                              [size |-> MessageSize(m)], TRUE)
            /\ UNCHANGED channelQueue
       ELSE /\ Len(channelQueue[i]) < MaxQueued
            /\ channelQueue' = [channelQueue EXCEPT ![i] = Append(@, m)]
            /\ UNCHANGED ret
    /\ UNCHANGED <<capiRest, returned, peerConnectionMap, dataChannelMap, trackMap, userPointerMap,
                   lastId, messageCallback>>

\* rtcSendMessage: size >= 0 sends size bytes, size < 0 sends the string at
\* data, whatever its length; send may throw
RtcSendMessage(i, data, size) ==
    /\ \E n \in Lens, fails \in BOOLEAN :
         LET exc == IF i \notin ChannelIds \/ (~data /\ size # 0) THEN "invalid_argument"
                    ELSE IF fails THEN "runtime_error" ELSE "none"
             sent == IF size >= 0 THEN [type |-> "Binary", len |-> size]
                     ELSE [type |-> "String", len |-> n]
         IN ret' = Returns("rtcSendMessage", [id |-> i, size |-> size],
                           [rc |-> Wrap(exc, RTC_ERR_SUCCESS), sent |-> sent], exc = "none")
    /\ UNCHANGED <<capiRest, capivars>>

\* rtcReceiveMessage: peek, copyAndReturn(std::move(value), buffer, *size),
\* then *size from the result or from the value moved from
RtcReceiveMessage(i, buffer, hasSize, size) ==
    /\ IF i \notin ChannelIds \/ ~hasSize
       THEN /\ ret' = Returns("rtcReceiveMessage", [id |-> i, buffer |-> buffer, msg |-> NoElem],
                              [rc |-> RTC_ERR_INVALID, size |-> size], FALSE)
            /\ UNCHANGED channelQueue
       ELSE IF channelQueue[i] = <<>>
       THEN /\ ret' = Returns("rtcReceiveMessage", [id |-> i, buffer |-> buffer, msg |-> NoElem],
                              [rc |-> RTC_ERR_NOT_AVAIL, size |-> Abs(size)], FALSE)
            /\ UNCHANGED channelQueue
       ELSE LET m == Head(channelQueue[i])
                r == CopyAndReturn(m.type, m.len, buffer, Abs(size))
            IN IF r >= 0
               THEN /\ ret' = Returns("rtcReceiveMessage",
                                      [id |-> i, buffer |-> buffer, msg |-> m],
                                      [rc |-> RTC_ERR_SUCCESS,
                                       size |-> IF m.type = "String" THEN 0 - r ELSE r], TRUE)
                    /\ channelQueue' = IF buffer THEN [channelQueue EXCEPT ![i] = Tail(@)]
                                        ELSE channelQueue
               ELSE /\ \E n \in MovedFromSizes(m.type, m.len) :
                         ret' = Returns("rtcReceiveMessage",
                                        [id |-> i, buffer |-> buffer, msg |-> m],
                                        [rc |-> r, size |-> MessageSize([m EXCEPT !.len = n])],
                                        FALSE)
                    /\ UNCHANGED channelQueue
    /\ UNCHANGED <<capiRest, returned, peerConnectionMap, dataChannelMap, trackMap, userPointerMap,
                   lastId, messageCallback>>

CapiNext ==
    \/ RtcCreatePeerConnection
    \/ \E p \in Ids, kind \in {"rtcCreateDataChannel", "rtcAddTrack"} : RtcCreateChannel(p, kind)
    \/ \E i \in Ids : RtcSetUserPointer(i)
    \/ \E i \in Ids : RtcDeletePeerConnection(i)
    \/ \E i \in Ids : RtcDelete(i)
    \/ \E i \in Ids, buffer \in BOOLEAN, size \in BufferSizes : RtcGetDataChannelLabel(i, buffer, size)
    \/ \E i \in Ids, cb \in BOOLEAN : RtcSetMessageCallback(i, cb)
    \/ \E i \in Ids, m \in ApiMessages : MessageArrives(i, m)
    \/ \E i \in Ids, data \in BOOLEAN, size \in -1..MaxLen : RtcSendMessage(i, data, size)
    \/ \E i \in Ids, buffer \in BOOLEAN, hasSize \in BOOLEAN, size \in BufferSizes :
          RtcReceiveMessage(i, buffer, hasSize, size)

(* ------------------------------------------------------------------------ *)
(* The handle registries of src/capi.cpp: every emplace function takes the  *)
(* next handle from the one counter `int lastId`, the erase functions and   *)
(* eraseAll drop entries and leave the counter alone.                       *)
(* ------------------------------------------------------------------------ *)
INT_MAX == 2147483647
INT_MIN == (-INT_MAX) - 1
Kinds == {"peerConnection", "dataChannel", "track", "webSocket", "webSocketServer"}

\* ++lastId on an int: at INT_MAX the signed overflow is undefined, the build
\* either wraps to INT_MIN or traps
Increment(n) ==
    IF n < INT_MAX THEN {[val |-> n + 1, trap |-> FALSE]}
    ELSE {[val |-> INT_MIN, trap |-> FALSE], [val |-> n, trap |-> TRUE]}

\* the process has not been aborted
Alive == ret.op # "abort"
Handles == {returned[k] : k \in 1..Len(returned)}
Registry(kind) ==
    CASE kind = "peerConnection" -> peerConnectionMap
      [] kind = "dataChannel" -> dataChannelMap
      [] kind = "track" -> trackMap
      [] kind = "webSocket" -> webSocketMap
      [] OTHER -> webSocketServerMap
With(kind, of, h, reg) == IF kind = of THEN reg \cup {h} ELSE reg
Without(kind, of, h, reg) == IF kind = of THEN reg \ {h} ELSE reg

\* emplacePeerConnection, emplaceDataChannel, emplaceTrack, emplaceWebSocket,
\* emplaceWebSocketServer
Emplace(kind) ==
    /\ Alive /\ Len(returned) < MaxCreated
    /\ \E o \in Increment(lastId) :
         IF o.trap
         THEN /\ ret' = Returns("abort", [id |-> 0, kind |-> kind], [rc |-> 0], FALSE)
              /\ UNCHANGED <<peerConnectionMap, dataChannelMap, trackMap, webSocketMap,
                             webSocketServerMap, userPointerMap, lastId, returned>>
         ELSE /\ lastId' = o.val
              /\ peerConnectionMap' = With(kind, "peerConnection", o.val, peerConnectionMap)
              /\ dataChannelMap' = With(kind, "dataChannel", o.val, dataChannelMap)
              /\ trackMap' = With(kind, "track", o.val, trackMap)
              /\ webSocketMap' = With(kind, "webSocket", o.val, webSocketMap)
              /\ webSocketServerMap' = With(kind, "webSocketServer", o.val, webSocketServerMap)
              /\ userPointerMap' = userPointerMap \cup {o.val}
              /\ returned' = Append(returned, o.val)
              /\ ret' = Returns("emplace", [id |-> 0, kind |-> kind], [rc |-> o.val], TRUE)
    /\ UNCHANGED objRest

\* erasePeerConnection, eraseDataChannel, eraseTrack, eraseWebSocket,
\* eraseWebSocketServer: throw when the registry of the kind has no entry i
Erase(kind, i) ==
    /\ Alive
    /\ LET found == i \in Registry(kind) IN
         /\ ret' = Returns("erase", [id |-> i, kind |-> kind], [rc |-> 0], found)
         /\ peerConnectionMap' = Without(kind, "peerConnection", i, peerConnectionMap)
         /\ dataChannelMap' = Without(kind, "dataChannel", i, dataChannelMap)
         /\ trackMap' = Without(kind, "track", i, trackMap)
         /\ webSocketMap' = Without(kind, "webSocket", i, webSocketMap)
         /\ webSocketServerMap' = Without(kind, "webSocketServer", i, webSocketServerMap)
         /\ userPointerMap' = IF found THEN userPointerMap \ {i} ELSE userPointerMap
    /\ UNCHANGED <<objRest, lastId, returned>>

\* eraseAll: the number of entries dropped; every registry is cleared
EraseAllCount ==
    Cardinality(dataChannelMap) + Cardinality(trackMap) + Cardinality(peerConnectionMap)
        + Cardinality(webSocketMap) + Cardinality(webSocketServerMap)
EraseAllBody_KeepsWebSockets ==
    /\ peerConnectionMap' = {} /\ dataChannelMap' = {} /\ trackMap' = {}
    /\ UNCHANGED <<webSocketMap, webSocketServerMap>>
    /\ userPointerMap' = webSocketMap \cup webSocketServerMap
EraseAllBody ==
    /\ peerConnectionMap' = {} /\ dataChannelMap' = {} /\ trackMap' = {}
    /\ webSocketMap' = {} /\ webSocketServerMap' = {} /\ userPointerMap' = {}
EraseAll ==
    /\ Alive
    /\ ret' = Returns("eraseAll", [id |-> 0], [rc |-> EraseAllCount], TRUE)
    /\ EraseAllBody
    /\ UNCHANGED <<objRest, lastId, returned>>

\* rtcCleanup up to wait_for: eraseAll, the count logged when not 0, the
\* future of rtc::Cleanup()
CleanupTimeout == 10
CleanupInit == cleanup = [at |-> "idle", elapsed |-> 0, count |-> 0, error |-> FALSE]
RtcCleanupCall ==
    /\ Alive /\ cleanup.at \in {"idle", "returned"}
    /\ ret' = Returns("eraseAll", [id |-> 0], [rc |-> EraseAllCount], TRUE)
    /\ EraseAllBody
    /\ cleanup' = [at |-> "waiting", elapsed |-> 0, count |-> EraseAllCount, error |-> FALSE]
    /\ UNCHANGED cleanupRest

\* a second passes in wait_for(10s)
CleanupTick ==
    /\ cleanup.at = "waiting" /\ cleanup.elapsed < CleanupTimeout
    /\ cleanup' = [cleanup EXCEPT !.elapsed = @ + 1]
    /\ UNCHANGED <<qvars, cbvars, wsvars, capivars, sctpvars, streamvars, latevars>>

\* the future is ready: wait_for returns ready and rtcCleanup returns
CleanupReady ==
    /\ cleanup.at = "waiting"
    /\ cleanup' = [cleanup EXCEPT !.at = "returned"]
    /\ ret' = Returns("rtcCleanup", [id |-> 0], [rc |-> 0], TRUE)
    /\ UNCHANGED <<cleanupRest, regvars, objvars>>

\* wait_for returns timeout after 10 s: runtime_error is thrown, caught by
\* the handler of rtcCleanup and logged; rtcCleanup returns
CleanupTimedOut ==
    /\ cleanup.at = "waiting" /\ cleanup.elapsed = CleanupTimeout
    /\ cleanup' = [cleanup EXCEPT !.at = "returned", !.error = TRUE]
    /\ ret' = Returns("rtcCleanup", [id |-> 0], [rc |-> 0], FALSE)
    /\ UNCHANGED <<cleanupRest, regvars, objvars>>

(* ------------------------------------------------------------------------ *)
(* What the C API keeps per object, src/capi.cpp: the state callbacks of a  *)
(* peer connection, the reliability of a data channel, the codec of a       *)
(* track.                                                                   *)
(* ------------------------------------------------------------------------ *)
CFuncs == 0..NumFuncs        \* a C callback pointer, 0 is NULL
StateSlots == {"gathering", "signaling"}

\* PeerConnection::onGatheringStateChange / onSignalingStateChange: the slot
\* of peer connection p takes the wrapper of cb, or nothing for nullptr
SetSlot(cbs, p, slot, cb) ==
    {e \in cbs : ~(e.pc = p /\ e.slot = slot)}
        \cup (IF cb # 0 THEN {[pc |-> p, slot |-> slot, cb |-> cb]} ELSE {})
SlotOf(cbs, p, slot) == {e.cb : e \in {x \in cbs : x.pc = p /\ x.slot = slot}}

\* rtcSetGatheringStateChangeCallback
RtcSetGatheringStateChangeCallback(p, cb) ==
    /\ LET exc == IF p \in peerConnectionMap THEN "none" ELSE "invalid_argument" IN
         /\ ret' = Returns("rtcSetGatheringStateChangeCallback", [id |-> p, cb |-> cb],
                           [rc |-> Wrap(exc, RTC_ERR_SUCCESS)], exc = "none")
         /\ pcCallbacks' = IF exc = "none" THEN SetSlot(pcCallbacks, p, "gathering", cb)
                            ELSE pcCallbacks
    /\ UNCHANGED <<descRest, regvars, created>>

\* rtcSetSignalingStateChangeCallback: with cb == NULL the else branch calls
\* onGatheringStateChange(nullptr)
RtcSetSignalingStateChangeCallback(p, cb) ==
    /\ LET exc == IF p \in peerConnectionMap THEN "none" ELSE "invalid_argument" IN
         /\ ret' = Returns("rtcSetSignalingStateChangeCallback", [id |-> p, cb |-> cb],
                           [rc |-> Wrap(exc, RTC_ERR_SUCCESS)], exc = "none")
         /\ pcCallbacks' = IF exc # "none" THEN pcCallbacks
                            ELSE IF cb # 0 THEN SetSlot(pcCallbacks, p, "signaling", cb)
                            ELSE SetSlot(pcCallbacks, p, "gathering", 0)
    /\ UNCHANGED <<descRest, regvars, created>>

\* rtcReliability as the caller fills it
Lifetimes == -1..MaxLifetime
Retransmits == 0..MaxRetransmits
Reliabilities ==
    [unordered : BOOLEAN, unreliable : BOOLEAN,
     maxPacketLifeTime : Lifetimes, maxRetransmits : Retransmits]
NoReliability ==
    [unordered |-> FALSE, unreliable |-> FALSE, maxPacketLifeTime |-> 0, maxRetransmits |-> 0]

\* std::chrono::milliseconds of an int, and int(count()) of it
Milliseconds(n) == [count |-> n]
Count(ms) == ms.count

\* the Reliability rtcCreateDataChannelEx builds from init->reliability; the
\* default DataChannelInit when init is NULL
ToReliability_TimedFromZero(hasInit, r) ==
    IF ~hasInit \/ ~r.unreliable
    THEN [unordered |-> hasInit /\ r.unordered, type |-> "Reliable", rexmit |-> [int |-> 0]]
    ELSE IF r.maxPacketLifeTime >= 0
    THEN [unordered |-> r.unordered, type |-> "Timed",
          rexmit |-> Milliseconds(r.maxPacketLifeTime)]
    ELSE [unordered |-> r.unordered, type |-> "Rexmit", rexmit |-> [int |-> r.maxRetransmits]]
ToReliability(hasInit, r) ==
    IF ~hasInit \/ ~r.unreliable
    THEN [unordered |-> hasInit /\ r.unordered, type |-> "Reliable", rexmit |-> [int |-> 0]]
    ELSE IF r.maxPacketLifeTime > 0
    THEN [unordered |-> r.unordered, type |-> "Timed",
          rexmit |-> Milliseconds(r.maxPacketLifeTime)]
    ELSE [unordered |-> r.unordered, type |-> "Rexmit", rexmit |-> [int |-> r.maxRetransmits]]

\* what rtcGetDataChannelReliability writes to *reliability: memset to 0,
\* then unordered, unreliable and the parameter of the type
FromReliability(dcr) ==
    CASE dcr.type = "Timed" ->
            [NoReliability EXCEPT !.unordered = dcr.unordered, !.unreliable = TRUE,
                                  !.maxPacketLifeTime = Count(dcr.rexmit)]
      [] dcr.type = "Rexmit" ->
            [NoReliability EXCEPT !.unordered = dcr.unordered, !.unreliable = TRUE,
                                  !.maxRetransmits = dcr.rexmit.int]
      [] OTHER -> [NoReliability EXCEPT !.unordered = dcr.unordered]

\* rtcCreateDataChannelEx: the DataChannelInit, getPeerConnection,
\* createDataChannel (it may throw), emplaceDataChannel
RtcCreateDataChannelEx(p, hasInit, r) ==
    /\ lastId < MaxHandles
    /\ \E exc \in IF p \in peerConnectionMap THEN {"none", "runtime_error"}
                   ELSE {"invalid_argument"} :
         /\ ret' = Returns("rtcCreateDataChannelEx", [id |-> p, hasInit |-> hasInit, init |-> r],
                           [rc |-> Wrap(exc, lastId + 1)], exc = "none")
         /\ IF exc = "none"
            THEN /\ lastId' = lastId + 1
                 /\ dataChannelMap' = dataChannelMap \cup {lastId'}
                 /\ userPointerMap' = userPointerMap \cup {lastId'}
                 /\ returned' = Append(returned, lastId')
                 /\ created' = created \cup {[id |-> lastId', hasInit |-> hasInit, init |-> r,
                                              reliability |-> ToReliability(hasInit, r)]}
            ELSE UNCHANGED <<lastId, dataChannelMap, userPointerMap, returned, created>>
    /\ UNCHANGED <<descRest, peerConnectionMap, trackMap, pcCallbacks>>

\* DataChannel::reliability(): the Reliability the channel was created with
ReliabilityOf(i) == (CHOOSE e \in created : e.id = i).reliability

\* rtcGetDataChannelReliability: getDataChannel, the null check, the copy
RtcGetDataChannelReliability(i, out) ==
    /\ i \in dataChannelMap => \E e \in created : e.id = i
    /\ LET exc == IF i \in dataChannelMap /\ out THEN "none" ELSE "invalid_argument"
           dcr == IF exc = "none" THEN ReliabilityOf(i) ELSE ToReliability(FALSE, NoReliability)
       IN  ret' = Returns("rtcGetDataChannelReliability", [id |-> i, out |-> out],
                          [rc |-> Wrap(exc, RTC_ERR_SUCCESS),
                           reliability |-> IF exc = "none" THEN FromReliability(dcr)
                                           ELSE NoReliability],
                          exc = "none")
    /\ UNCHANGED <<descRest, regvars, descvars>>

\* rtcAddTrackEx: the codec switch picks the add...Codec call of the media
\* description; RTC_CODEC_VP9 calls addVP8Codec
Codecs == {"H264", "VP8", "VP9", "OPUS", "PCMU", "PCMA", "other"}
PayloadTypes == 96..(95 + MaxPayloadTypes)
AddedCodec(codec) ==
    CASE codec = "H264" -> "H264"
      [] codec = "VP8" -> "VP8"
      [] codec = "VP9" -> "VP8"
      [] codec = "OPUS" -> "opus"
      [] codec = "PCMU" -> "PCMU"
      [] codec = "PCMA" -> "PCMA"
      [] OTHER -> "none"
RtcAddTrackEx(p, hasInit, codec, payloadType) ==
    /\ lastId < MaxHandles
    /\ \E exc \in IF p \notin peerConnectionMap \/ ~hasInit \/ AddedCodec(codec) = "none"
                   THEN {"invalid_argument"} ELSE {"none", "runtime_error"} :
         /\ ret' = Returns("rtcAddTrackEx",
                           [id |-> p, hasInit |-> hasInit, codec |-> codec, payloadType |-> payloadType],
                           [rc |-> Wrap(exc, lastId + 1)], exc = "none")
         /\ IF exc = "none"
            THEN /\ lastId' = lastId + 1
                 /\ trackMap' = trackMap \cup {lastId'}
                 /\ userPointerMap' = userPointerMap \cup {lastId'}
                 /\ returned' = Append(returned, lastId')
                 /\ created' = created \cup {[id |-> lastId', rtpMap |-> AddedCodec(codec),
                                              payloadType |-> payloadType]}
            ELSE UNCHANGED <<lastId, trackMap, userPointerMap, returned, created>>
    /\ UNCHANGED <<descRest, peerConnectionMap, dataChannelMap, pcCallbacks>>

(* ------------------------------------------------------------------------ *)
(* The buffered amount of an SCTP stream, src/impl/sctptransport.hpp:       *)
(* mBufferedAmount per stream id, changed by updateBufferedAmount under     *)
(* mSendMutex with the buffered amount callback called synchronously.  The  *)
(* channel fires onBufferedAmountLow from that callback.                    *)
(* ------------------------------------------------------------------------ *)
Streams == 1..NumStreams
Thresholds == 0..MaxThreshold

SctpInit ==
    /\ mBufferedAmount = [s \in Streams |-> 0]
    /\ lowThreshold \in [Streams -> Thresholds]

\* the channel's test in the buffered amount callback: the amount went from
\* above the low threshold to at or below it
CrossesLow_AtOrBelow(previous, amount, threshold) == amount <= threshold
CrossesLow(previous, amount, threshold) == previous > threshold /\ amount <= threshold

\* updateBufferedAmount(streamId, delta), then triggerBufferedAmount(streamId,
\* amount): ret names the callback the channel fired, if any
UpdateBufferedAmount(s, delta) ==
    LET amount == mBufferedAmount[s] + delta IN
    /\ mBufferedAmount' = [mBufferedAmount EXCEPT ![s] = amount]
    /\ ret' = Returns(IF CrossesLow(mBufferedAmount[s], amount, lowThreshold[s])
                      THEN "onBufferedAmountLow" ELSE "updateBufferedAmount",
                      [id |-> s, delta |-> delta], [rc |-> amount], TRUE)
    /\ UNCHANGED <<sctpRest, lowThreshold>>

\* a message of n bytes is handed to the library on stream s
SctpSend(s, n) ==
    /\ mBufferedAmount[s] + n <= MaxBuffered
    /\ UpdateBufferedAmount(s, n)

\* the library reports write space: n of the buffered bytes of s are written
SctpWriteSpace(s, n) ==
    /\ n <= mBufferedAmount[s]
    /\ UpdateBufferedAmount(s, -n)

SctpNext ==
    \/ \E s \in Streams, n \in 1..MaxBuffered : SctpSend(s, n)
    \/ \E s \in Streams, n \in 1..MaxBuffered : SctpWriteSpace(s, n)

SctpIdle == SctpInit /\ lowThreshold = [s \in Streams |-> 0]

(* ------------------------------------------------------------------------ *)
(* The sample callback of examples/streamer/main.cpp for one client track:  *)
(* RTP timestamps are uint32_t, kept here as two 16-bit halves so that the  *)
(* arithmetic modulo 2^32 is computed as the machine computes it.           *)
(* ------------------------------------------------------------------------ *)
Half == 65536
U32(n) == [hi |-> (n \div Half) % Half, lo |-> n % Half]
U32Max == [hi |-> Half - 1, lo |-> Half - 1]
U32Add(a, b) ==
    LET lo == a.lo + b.lo IN
    [hi |-> (a.hi + b.hi + (lo \div Half)) % Half, lo |-> lo % Half]
U32Sub(a, b) ==
    LET lo == a.lo - b.lo IN
    [hi |-> (a.hi - b.hi - (IF lo < 0 THEN 1 ELSE 0) + Half) % Half, lo |-> (lo + Half) % Half]
\* a > n and a >= n for a small n
U32Gt(a, n) == a.hi > 0 \/ a.lo > n
U32Ge(a, n) == a.hi > 0 \/ a.lo >= n

ClockRates == 2..MaxClockRate
StartTimestamps == {U32(0)} \cup {U32Sub(U32Max, U32(j)) : j \in 0..MaxClockRate}

\* the track before the first sample: the reporter's previous report is at
\* the start timestamp
StreamInit ==
    /\ rtpConfig \in [clockRate : ClockRates, startTimestamp : StartTimestamps,
                      timestamp : StartTimestamps]
    /\ rtpConfig.timestamp = rtpConfig.startTimestamp
    /\ sender = [previousReportedTimestamp |-> rtpConfig.startTimestamp, needsToReport |-> FALSE]
    /\ sampleTime = 0

\* rtpConfig->timestampToSeconds(t) > 1: more than clockRate ticks
MoreThanOneSecond(t, clockRate) == U32Gt(t, clockRate)

\* the onSample callback for the sample d ticks after the last one: the new
\* timestamp, the test of the time since the last report, setNeedsToReport,
\* track->send; a sample that is sent with a report due carries the report
OnSample(d, sent) ==
    /\ sampleTime + d <= MaxSampleTime
    /\ sampleTime' = sampleTime + d
    /\ LET timestamp == U32Add(rtpConfig.startTimestamp, U32(sampleTime'))
           reportElapsedTimestamp == U32Sub(timestamp, sender.previousReportedTimestamp)
           requested == MoreThanOneSecond(reportElapsedTimestamp, rtpConfig.clockRate)
           needs == sender.needsToReport \/ requested
       IN  /\ rtpConfig' = [rtpConfig EXCEPT !.timestamp = timestamp]
           /\ sender' = IF sent /\ needs
                        THEN [previousReportedTimestamp |-> timestamp, needsToReport |-> FALSE]
                        ELSE [sender EXCEPT !.needsToReport = needs]
           /\ ret' = Returns("onSample", [id |-> sampleTime'],
                             [rc |-> 0, requested |-> requested,
                              elapsed |-> reportElapsedTimestamp], sent)
    /\ UNCHANGED <<streamRest>>

StreamNext == \E d \in 1..MaxSampleTicks, sent \in BOOLEAN : OnSample(d, sent)

StreamIdle ==
    /\ StreamInit /\ rtpConfig.clockRate = MaxClockRate /\ rtpConfig.startTimestamp = U32(0)

\* what a specification leaves idle when it runs neither the SCTP streams
\* nor the sample callback
(* ------------------------------------------------------------------------ *)
(* The lambdas of rtcSetMessageCallback on the thread that delivers a       *)
(* message (src/capi.cpp:750-765): getUserPointer(id) takes and releases    *)
(* the mutex, then cb is called outside it; the calls of the C API run on   *)
(* the user's thread in between.                                            *)
(* ------------------------------------------------------------------------ *)
NoDispatch == [at |-> "idle", id |-> 0, msg |-> NoElem]
DispatchInit == dispatch = NoDispatch

\* the channel calls the lambda installed by rtcSetMessageCallback with m
DispatchMessage(i, m) ==
    /\ dispatch.at = "idle"
    /\ i \in ChannelIds /\ i \in messageCallback
    /\ dispatch' = [at |-> "getUserPointer", id |-> i, msg |-> m]
    /\ UNCHANGED <<dispatchRest, ret>>

\* if (auto ptr = getUserPointer(id)): the lookup under the mutex
DispatchGetUserPointer ==
    /\ dispatch.at = "getUserPointer"
    /\ dispatch' = IF dispatch.id \in userPointerMap THEN [dispatch EXCEPT !.at = "cb"]
                   ELSE NoDispatch
    /\ UNCHANGED <<dispatchRest, ret>>

\* cb(id, data, size, *ptr): the user's function runs
DispatchCb ==
    /\ dispatch.at = "cb"
    /\ ret' = Returns("messageCallback", [id |-> dispatch.id, msg |-> dispatch.msg],
                      [size |-> MessageSize(dispatch.msg)], TRUE)
    /\ dispatch' = NoDispatch
    /\ UNCHANGED dispatchRest

DispatchNext ==
    \/ RtcCreatePeerConnection
    \/ \E p \in Ids, kind \in {"rtcCreateDataChannel", "rtcAddTrack"} : RtcCreateChannel(p, kind)
    \/ \E i \in Ids : RtcDelete(i)
    \/ \E i \in Ids, cb \in BOOLEAN : RtcSetMessageCallback(i, cb)
    \/ \E i \in Ids, m \in ApiMessages : DispatchMessage(i, m)
    \/ DispatchGetUserPointer
    \/ DispatchCb

(* ------------------------------------------------------------------------ *)
(* rtcReceiveMessage called from several threads (src/capi.cpp:856-902):    *)
(* channel->peek() and channel->receive() each lock the queue on their own, *)
(* and another caller may run between the two.                              *)
(* ------------------------------------------------------------------------ *)
Callers == 1..NumCallers
NoReceive == [at |-> "idle", id |-> 0, msg |-> NoElem, buffer |-> FALSE, res |-> 0]
ReceiveInit == receiving = [t \in Callers |-> NoReceive]

\* rtcReceiveMessage up to the copy: getChannel, the size test, peek, copyAndReturn
ReceiveMessagePeek(t, i, buffer, hasSize, size) ==
    /\ receiving[t].at = "idle"
    /\ IF i \notin ChannelIds \/ ~hasSize
       THEN /\ ret' = Returns("rtcReceiveMessage", [id |-> i, buffer |-> buffer, msg |-> NoElem],
                              [rc |-> RTC_ERR_INVALID, size |-> size], FALSE)
            /\ UNCHANGED receiving
       ELSE IF channelQueue[i] = <<>>
       THEN /\ ret' = Returns("rtcReceiveMessage", [id |-> i, buffer |-> buffer, msg |-> NoElem],
                              [rc |-> RTC_ERR_NOT_AVAIL, size |-> Abs(size)], FALSE)
            /\ UNCHANGED receiving
       ELSE LET m == Head(channelQueue[i])
                r == CopyAndReturn(m.type, m.len, buffer, Abs(size))
            IN IF r >= 0
               THEN /\ receiving' = [receiving EXCEPT ![t] =
                                        [at |-> "receive", id |-> i, msg |-> m,
                                         buffer |-> buffer, res |-> r]]
                    /\ UNCHANGED ret
               ELSE /\ \E n \in MovedFromSizes(m.type, m.len) :
                         ret' = Returns("rtcReceiveMessage",
                                        [id |-> i, buffer |-> buffer, msg |-> m],
                                        [rc |-> r, size |-> MessageSize([m EXCEPT !.len = n])],
                                        FALSE)
                    /\ UNCHANGED receiving
    /\ UNCHANGED <<receiveRest, channelQueue>>

\* if (buffer) channel->receive(): the front of the queue, if any, is dropped;
\* the call returns RTC_ERR_SUCCESS with the size of the message it copied
ReceiveMessageDiscard(t) ==
    /\ receiving[t].at = "receive"
    /\ LET r == receiving[t] IN
         /\ channelQueue' = IF r.buffer /\ channelQueue[r.id] # <<>>
                             THEN [channelQueue EXCEPT ![r.id] = Tail(@)]
                             ELSE channelQueue
         /\ ret' = Returns("rtcReceiveMessage", [id |-> r.id, buffer |-> r.buffer, msg |-> r.msg],
                           [rc |-> RTC_ERR_SUCCESS,
                            size |-> IF r.msg.type = "String" THEN 0 - r.res ELSE r.res], TRUE)
    /\ receiving' = [receiving EXCEPT ![t] = NoReceive]
    /\ UNCHANGED receiveRest

ReceiveNext ==
    \/ RtcCreatePeerConnection
    \/ \E p \in Ids, kind \in {"rtcCreateDataChannel", "rtcAddTrack"} : RtcCreateChannel(p, kind)
    \/ \E i \in Ids, m \in ApiMessages : MessageArrives(i, m)
    \/ \E t \in Callers, i \in Ids, buffer \in BOOLEAN, hasSize \in BOOLEAN, size \in BufferSizes :
          ReceiveMessagePeek(t, i, buffer, hasSize, size)
    \/ \E t \in Callers : ReceiveMessageDiscard(t)

(* ------------------------------------------------------------------------ *)
(* The media handlers of src/capi.cpp: rtcpChainableHandlerMap and          *)
(* rtpConfigMap are filled with unordered_map::emplace, which leaves an     *)
(* entry that exists as it is; the track takes every new handler.           *)
(* ------------------------------------------------------------------------ *)
MediaInit ==
    /\ rtcpChainableHandlerMap = [i \in Ids |-> 0]
    /\ rtpConfigMap = [i \in Ids |-> 0]
    /\ mMediaHandler = [i \in Ids |-> 0]
    /\ handlersMade = 0

\* map.emplace(std::make_pair(tr, ptr)): no effect if the key has an entry
EmplaceMedia(map, tr, k) == [map EXCEPT ![tr] = IF @ = 0 THEN k ELSE @]

\* rtcSetH264PacketizationHandler, rtcSetOpusPacketizationHandler: getTrack,
\* a new configuration and handler, the two emplace calls, setMediaHandler
RtcSetPacketizationHandler(tr, codec) ==
    /\ handlersMade < MaxHandlersMade
    /\ LET exc == IF tr \in trackMap THEN "none" ELSE "invalid_argument"
           k == handlersMade + 1
       IN /\ ret' = Returns("rtcSetPacketizationHandler", [id |-> tr, codec |-> codec],
                            [rc |-> Wrap(exc, RTC_ERR_SUCCESS)], exc = "none")
          /\ IF exc = "none"
             THEN /\ handlersMade' = k
                  /\ rtcpChainableHandlerMap' = EmplaceMedia(rtcpChainableHandlerMap, tr, k)
                  /\ rtpConfigMap' = EmplaceMedia(rtpConfigMap, tr, k)
                  /\ mMediaHandler' = [mMediaHandler EXCEPT ![tr] = k]
             ELSE UNCHANGED mediavars
    /\ UNCHANGED <<mediaRest, regvars, channelQueue, messageCallback>>

\* rtcChainRtcpSrReporter, rtcChainRtcpNackResponder: the reporter is built on
\* getRtpConfig(tr) and chained to getMediaChainableHandler(tr)
RtcChainRtcp(tr, what) ==
    /\ LET exc == IF (what = "SrReporter" /\ rtpConfigMap[tr] = 0)
                      \/ rtcpChainableHandlerMap[tr] = 0
                  THEN "invalid_argument" ELSE "none"
       IN ret' = Returns("rtcChainRtcp", [id |-> tr, what |-> what],
                         [rc |-> Wrap(exc, RTC_ERR_SUCCESS),
                          handler |-> rtcpChainableHandlerMap[tr],
                          config |-> IF what = "SrReporter" THEN rtpConfigMap[tr] ELSE 0],
                         exc = "none")
    /\ UNCHANGED <<mediaRest, capivars, mediavars>>

\* rtcDeleteTrack: getTrack, close, eraseTrack with the media entries of tr
RtcDeleteTrack(tr) ==
    /\ LET exc == IF tr \in trackMap THEN "none" ELSE "invalid_argument" IN
         /\ ret' = Returns("rtcDeleteTrack", [id |-> tr], [rc |-> Wrap(exc, RTC_ERR_SUCCESS)],
                           exc = "none")
         /\ IF exc = "none"
            THEN /\ trackMap' = trackMap \ {tr}
                 /\ userPointerMap' = userPointerMap \ {tr}
                 /\ channelQueue' = [channelQueue EXCEPT ![tr] = <<>>]
                 /\ messageCallback' = messageCallback \ {tr}
                 /\ rtcpChainableHandlerMap' = [rtcpChainableHandlerMap EXCEPT ![tr] = 0]
                 /\ rtpConfigMap' = [rtpConfigMap EXCEPT ![tr] = 0]
                 /\ mMediaHandler' = [mMediaHandler EXCEPT ![tr] = 0]
            ELSE UNCHANGED <<trackMap, userPointerMap, channelQueue, messageCallback,
                             rtcpChainableHandlerMap, rtpConfigMap, mMediaHandler>>
    /\ UNCHANGED <<mediaRest, peerConnectionMap, dataChannelMap, lastId, returned, handlersMade>>

MediaNext ==
    \/ RtcCreatePeerConnection
    \/ \E p \in Ids, kind \in {"rtcCreateDataChannel", "rtcAddTrack"} : RtcCreateChannel(p, kind)
    \/ \E tr \in Ids, codec \in {"H264", "Opus"} : RtcSetPacketizationHandler(tr, codec)
    \/ \E tr \in Ids, what \in {"SrReporter", "NackResponder"} : RtcChainRtcp(tr, what)
    \/ \E tr \in Ids : RtcDeleteTrack(tr)

(* ------------------------------------------------------------------------ *)
(* rtcSetDataChannelCallback and rtcSetTrackCallback (src/capi.cpp:545-577) *)
(* install a lambda that registers the incoming object, looks up the user   *)
(* pointer of the peer connection and, if there is one, copies it to the    *)
(* new handle and calls cb. It runs on a thread of the peer connection.     *)
(* ------------------------------------------------------------------------ *)
ChannelSlots == {"dataChannel", "track"}
OnChannelIdle(o) == [o EXCEPT !.at = "idle", !.pc = 0, !.id = 0]
OnChannelInit == onChannel = [at |-> "idle", pc |-> 0, id |-> 0, emplaced |-> {}, reported |-> {}]

\* rtcSetDataChannelCallback, rtcSetTrackCallback
RtcSetChannelCallback(p, slot, cb) ==
    /\ LET exc == IF p \in peerConnectionMap THEN "none" ELSE "invalid_argument" IN
         /\ ret' = Returns("rtcSetChannelCallback", [id |-> p, slot |-> slot, cb |-> cb],
                           [rc |-> Wrap(exc, RTC_ERR_SUCCESS)], exc = "none")
         /\ pcCallbacks' = IF exc = "none" THEN SetSlot(pcCallbacks, p, slot, cb)
                            ELSE pcCallbacks
    /\ UNCHANGED <<onChannelRest, regvars, onChannel>>

\* the peer connection calls the lambda: int dc = emplaceDataChannel(dataChannel)
OnChannelEmplace(p, slot) ==
    /\ onChannel.at = "idle"
    /\ p \in peerConnectionMap /\ SlotOf(pcCallbacks, p, slot) # {}
    /\ lastId < MaxHandles
    /\ lastId' = lastId + 1
    /\ dataChannelMap' = IF slot = "dataChannel" THEN dataChannelMap \cup {lastId'}
                          ELSE dataChannelMap
    /\ trackMap' = IF slot = "track" THEN trackMap \cup {lastId'} ELSE trackMap
    /\ userPointerMap' = userPointerMap \cup {lastId'}
    /\ returned' = Append(returned, lastId')
    /\ onChannel' = [onChannel EXCEPT !.at = "getUserPointer", !.pc = p, !.id = lastId',
                                      !.emplaced = @ \cup {lastId'}]
    /\ UNCHANGED <<onChannelRest, ret, peerConnectionMap, pcCallbacks>>

\* if (auto ptr = getUserPointer(pc)): without an entry the lambda returns
OnChannelGetUserPointer ==
    /\ onChannel.at = "getUserPointer"
    /\ onChannel' = IF onChannel.pc \in userPointerMap THEN [onChannel EXCEPT !.at = "cb"]
                    ELSE OnChannelIdle(onChannel)
    /\ UNCHANGED <<onChannelRest, ret, regvars, pcCallbacks>>

\* rtcSetUserPointer(dc, *ptr); cb(pc, dc, *ptr)
OnChannelCb ==
    /\ onChannel.at = "cb"
    /\ userPointerMap' = userPointerMap \cup {onChannel.id}
    /\ ret' = Returns("channelCallback", [id |-> onChannel.pc], [rc |-> onChannel.id], TRUE)
    /\ onChannel' = [OnChannelIdle(onChannel) EXCEPT !.reported = @ \cup {onChannel.id}]
    /\ UNCHANGED <<onChannelRest, peerConnectionMap, dataChannelMap, trackMap, lastId, returned,
                   pcCallbacks>>

OnChannelNext ==
    \/ RtcCreatePeerConnection
    \/ \E p \in Ids, slot \in ChannelSlots, cb \in CFuncs : RtcSetChannelCallback(p, slot, cb)
    \/ \E p \in Ids, slot \in ChannelSlots : OnChannelEmplace(p, slot)
    \/ OnChannelGetUserPointer
    \/ OnChannelCb
    \/ \E i \in Ids : RtcDeletePeerConnection(i)
    \/ \E i \in Ids : RtcDelete(i)

(* ------------------------------------------------------------------------ *)
(* The streamer example (examples/streamer/main.cpp): the open callbacks of *)
(* a client's video and audio tracks dispatch addToStream to the main       *)
(* dispatch queue, which runs one call at a time.                           *)
(* ------------------------------------------------------------------------ *)
Clients == 1..NumClients
ClientStates == {"Waiting", "WaitingForVideo", "WaitingForAudio", "Ready"}
\* Client::state starts as State::Waiting
ClientInit ==
    /\ clients = [c \in Clients |-> [state |-> "Waiting", videoOpens |-> 0, audioOpens |-> 0,
                                     startTimes |-> 0]]
    /\ isRunning = FALSE

\* the state after addToStream(client, isAddingVideo)
AddedState_AnyKind(st, isAddingVideo) ==
    IF st = "Waiting" THEN (IF isAddingVideo THEN "WaitingForAudio" ELSE "WaitingForVideo")
    ELSE IF st \in {"WaitingForAudio", "WaitingForVideo"} THEN "Ready"
    ELSE st
AddedState(st, isAddingVideo) ==
    IF st = "Waiting" THEN (IF isAddingVideo THEN "WaitingForAudio" ELSE "WaitingForVideo")
    ELSE IF (st = "WaitingForAudio" /\ ~isAddingVideo) \/ (st = "WaitingForVideo" /\ isAddingVideo)
    THEN "Ready"
    ELSE st

\* a track of client c opens and the main queue runs addToStream(c, isAddingVideo):
\* setStartTime in the branch that sets Ready, startStream() if the state is Ready
AddToStream(c, isAddingVideo) ==
    /\ (IF isAddingVideo THEN clients[c].videoOpens ELSE clients[c].audioOpens) < MaxTrackOpens
    /\ LET st == clients[c].state
           new == AddedState(st, isAddingVideo)
       IN /\ clients' = [clients EXCEPT
                 ![c].state = new,
                 ![c].videoOpens = IF isAddingVideo THEN @ + 1 ELSE @,
                 ![c].audioOpens = IF isAddingVideo THEN @ ELSE @ + 1,
                 ![c].startTimes = IF new = "Ready" /\ st # "Ready" THEN @ + 1 ELSE @]
          /\ IF new = "Ready"
             THEN /\ isRunning' = TRUE
                  /\ ret' = Returns("startStream", [id |-> c], [state |-> new], TRUE)
             ELSE UNCHANGED <<isRunning, ret>>
    /\ UNCHANGED clientRest

ClientNext == \E c \in Clients, isAddingVideo \in BOOLEAN : AddToStream(c, isAddingVideo)

LateInit == DispatchInit /\ ReceiveInit /\ MediaInit /\ OnChannelInit /\ ClientInit
RestInit == SctpIdle /\ StreamIdle /\ CleanupInit /\ LateInit

vars == <<qvars, cbvars, wsvars, capivars, restvars>>

Init == QInit /\ CbInit /\ RestInit /\ WsInit /\ CapiInit /\ opensLeft = 0
Next == QNext

\* the threads of a Queue run under no assumption but interleaving
Spec == Init /\ [][Next]_vars

\* A runnable thread is scheduled: a woken thread reacquires the mutex, the
\* duration of a timed wait elapses, and the consumer keeps receiving.  A
\* condition variable owes nobody a spurious wake-up.
QFairness ==
    /\ \A t \in Threads : WF_vars(PushResume(t))
    /\ \A t \in Threads : WF_vars(PopResume(t))
    /\ \A t \in Threads : WF_vars(WaitResume(t))
    /\ \A t \in Threads : WF_vars(WaitTimeout(t))
    /\ WF_vars(\E t \in Threads : TryPop(t))

SpecFair == Init /\ [][Next]_vars /\ QFairness

\* the callbacks of one channel, used by its threads and its user functions
InitCb == QInit /\ mLimit = 0 /\ ~byteAware /\ CbInit /\ RestInit /\ WsInit /\ CapiInit /\ opensLeft = 0
NextCb == CbNext
SpecCb == InitCb /\ [][NextCb]_vars

\* one WebSocket, its threads and its user; mRecvQueue is bounded and counts
\* bytes (message_size_func)
InitWs == QInit /\ mLimit = MaxLimit /\ byteAware /\ CbInit /\ RestInit /\ WsInit /\ CapiInit /\ opensLeft = 1
NextWs == WsNext
SpecWs == InitWs /\ [][NextWs]_vars

\* the connection of a WebSocket: open, close, the transports and outgoing,
\* with no message arriving and no callback installed
InitConn == QInit /\ mLimit = MaxLimit /\ byteAware /\ CbInit /\ RestInit /\ WsInit /\ CapiInit /\ opensLeft = 1
NextConn ==
    \/ UserOpen
    \/ UserClose
    \/ \E n \in 1..(MaxMessageSize + 1) : UserOutgoing(n)
    \/ \E l \in Layers, s \in {"Connected", "Failed", "Disconnected"} : TransportEvent(l, s)
    \/ PoolRun
    \/ \E t \in WsThreads :
        \/ OpenSetConnecting(t)
        \/ \E l \in Layers : \/ InitLoad(t, l)
                             \/ InitLower(t, l)
                             \/ InitStore(t, l)
                             \/ InitCheck(t, l)
                             \/ InitUnstore(t, l)
                             \/ InitStart(t, l)
        \/ InitRethrow(t)
        \/ CloseLoad(t)
        \/ CloseSetClosing(t)
        \/ CloseLoadWs(t)
        \/ CloseSetClosed(t)
        \/ RemoteCloseCheck(t)
        \/ CloseTransportsCheck(t)
        \/ CloseTransportsSetClosed(t)
        \/ ResetCallbacks(t)
        \/ \E l \in Layers : CloseTransportsExchange(t, l)
        \/ CloseTransportsEnqueue(t)
        \/ \E c \in Callbacks : Trigger(t, c)
        \/ WsConnectedCheck(t)
        \/ WsSetOpen(t)
        \/ OutgoingCheckWs(t)
        \/ OutgoingSend(t)
SpecWsConn == InitConn /\ [][NextConn]_vars

\* open() called again on the same WebSocket, over transports that connect
\* and neither fail nor disconnect
InitOpen == QInit /\ mLimit = MaxLimit /\ byteAware /\ CbInit /\ RestInit /\ WsInit /\ CapiInit /\ opensLeft = MaxOpens
NextOpen ==
    \/ UserOpen
    \/ UserClose
    \/ \E l \in Layers : TransportEvent(l, "Connected")
    \/ PoolRun
    \/ \E t \in WsThreads :
        \/ OpenSetConnecting(t)
        \/ \E l \in Layers : \/ InitLoad(t, l)
                             \/ InitLower(t, l)
                             \/ InitStore(t, l)
                             \/ InitCheck(t, l)
                             \/ InitUnstore(t, l)
                             \/ InitStart(t, l)
        \/ InitRethrow(t)
        \/ CloseLoad(t)
        \/ CloseSetClosing(t)
        \/ CloseLoadWs(t)
        \/ CloseSetClosed(t)
        \/ RemoteCloseCheck(t)
        \/ CloseTransportsCheck(t)
        \/ CloseTransportsSetClosed(t)
        \/ ResetCallbacks(t)
        \/ \E l \in Layers : CloseTransportsExchange(t, l)
        \/ CloseTransportsEnqueue(t)
        \/ \E c \in Callbacks : Trigger(t, c)
        \/ WsConnectedCheck(t)
        \/ WsSetOpen(t)
SpecWsOpen == InitOpen /\ [][NextOpen]_vars

\* the receive path of a WebSocket that is Open over ws: messages arrive and
\* the user polls with receive and peek
InitRecv ==
    /\ mLimit = RecvQueueLimit /\ byteAware = TRUE /\ mAmount = 0 /\ mQueue = <<>>
    /\ mStopping = FALSE /\ nextId = 1 /\ ret = NoRet
    /\ pc = [t \in Threads |-> "idle"] /\ pend = [t \in Threads |-> NoPend]
    /\ CbInit /\ RestInit
    /\ state = "Open" /\ mIsSecure = FALSE /\ opensLeft = 0
    /\ mTransport = [l \in Layers |-> l # "tls"]
    /\ run = [l \in Layers |-> IF l = "tls" THEN "none" ELSE "running"]
    /\ phase = [l \in Layers |-> IF l = "tls" THEN "none" ELSE "Connected"]
    /\ wpc = [t \in WsThreads |-> <<>>]
    /\ task = [t \in WsThreads |-> NoTask] /\ poolQueue = <<>>
    /\ cbInstalled = Callbacks /\ cbStored = {} /\ issued = {"open"}
    /\ CapiInit
NextRecv ==
    \/ \E m \in {"data", "control"} : Incoming(m)
    \/ UserReceive
    \/ UserPeek
    \/ \E t \in WsThreads :
        \/ IncomingPush(t)
        \/ Trigger(t, "available")
        \/ ReceiveTryPop(t)
        \/ PeekFront(t)
SpecWsRecv == InitRecv /\ [][NextRecv]_vars

\* the calls of a C program on the handles it created
InitCapi == QInit /\ mLimit = 0 /\ ~byteAware /\ CbInit /\ RestInit /\ WsInit /\ opensLeft = 0 /\ CapiInit
SpecCapi == InitCapi /\ [][CapiNext]_vars
SpecDispatch == InitCapi /\ [][DispatchNext]_vars
SpecReceive == InitCapi /\ [][ReceiveNext]_vars
SpecMedia == InitCapi /\ [][MediaNext]_vars
SpecOnChannel == InitCapi /\ [][OnChannelNext]_vars
SpecClient == InitCapi /\ [][ClientNext]_vars

\* the registries alone; the counter starts at 0, or close to INT_MAX after
\* that many objects were created and deleted (the history keeps the last)
InitHandles ==
    /\ QInit /\ mLimit = 0 /\ ~byteAware /\ CbInit /\ RestInit /\ WsInit /\ opensLeft = 0
    /\ peerConnectionMap = {} /\ dataChannelMap = {} /\ trackMap = {}
    /\ webSocketMap = {} /\ webSocketServerMap = {} /\ userPointerMap = {}
    /\ channelQueue = [i \in Ids |-> <<>>] /\ messageCallback = {}
    /\ pcCallbacks = {} /\ created = {}
    /\ lastId \in {0, INT_MAX - 1}
    /\ returned = IF lastId = 0 THEN <<>> ELSE <<lastId>>
NextHandles ==
    \/ \E kind \in Kinds : Emplace(kind)
    \/ \E kind \in Kinds, i \in Handles : Erase(kind, i)
    \/ EraseAll
SpecHandles == InitHandles /\ [][NextHandles]_vars

\* peer connections with their state callbacks, data channels and tracks
NextObj ==
    \/ RtcCreatePeerConnection
    \/ \E p \in Ids, cb \in CFuncs : RtcSetGatheringStateChangeCallback(p, cb)
    \/ \E p \in Ids, cb \in CFuncs : RtcSetSignalingStateChangeCallback(p, cb)
    \/ \E p \in Ids, hasInit \in BOOLEAN, r \in Reliabilities :
          RtcCreateDataChannelEx(p, hasInit, IF hasInit THEN r ELSE NoReliability)
    \/ \E i \in Ids, out \in BOOLEAN : RtcGetDataChannelReliability(i, out)
    \/ \E p \in Ids, hasInit \in BOOLEAN, codec \in Codecs, payloadType \in PayloadTypes :
          RtcAddTrackEx(p, hasInit, codec, payloadType)
SpecObj == InitCapi /\ [][NextObj]_vars

\* the SCTP streams alone, each with a low threshold of its own
InitSctp ==
    /\ QInit /\ mLimit = 0 /\ ~byteAware /\ CbInit /\ WsInit /\ opensLeft = 0 /\ CapiInit
    /\ SctpInit /\ StreamIdle /\ CleanupInit /\ LateInit
SpecSctp == InitSctp /\ [][SctpNext]_vars

\* the sample callback alone, for every clock rate and start timestamp
InitStream ==
    /\ QInit /\ mLimit = 0 /\ ~byteAware /\ CbInit /\ WsInit /\ opensLeft = 0 /\ CapiInit
    /\ SctpIdle /\ StreamInit /\ CleanupInit /\ LateInit
SpecStream == InitStream /\ [][StreamNext]_vars

\* rtcCleanup among creations of objects of every kind; time passes and
\* wait_for returns when its future is ready or its time is up
NextCleanup ==
    \/ \E kind \in Kinds : Emplace(kind)
    \/ RtcCleanupCall
    \/ CleanupTick
    \/ CleanupReady
    \/ CleanupTimedOut
CleanupFairness == WF_vars(CleanupTick \/ CleanupReady \/ CleanupTimedOut)
SpecCleanup == InitCapi /\ [][NextCleanup]_vars /\ CleanupFairness

(***************************************************************************)
(* Claims about Queue<T>.                                                  *)
(***************************************************************************)
Returned(op) == ret'.seq # ret.seq /\ ret'.op = op
Parked(t) == pc[t] \in {"push_parked", "pop_parked", "wait_parked"}

\* C1: in every reachable state amount() equals the sum of amountFn(x) over the
\* elements in the queue, and equals size() with the default amountFn.
C1_AmountIsSum ==
    /\ Amount = SumAmount(mQueue)
    /\ ~byteAware => Amount = Size

\* C2 (as stated): push admits an element only when amount() plus the amount
\* of the element does not exceed the limit of a bounded queue.
C2_AdmitsWithinAmount ==
    [][(Returned("push") /\ mQueue' # mQueue /\ mLimit # 0)
          => Amount + AmountFn(ret'.arg) <= mLimit]_vars

\* C2 (amended): push admits an element only when the queue is running and
\* unbounded or holds fewer than limit elements, whatever their amount; it
\* blocks only while the queue is running, bounded and holds limit elements or
\* more; it returns without adding the element only when the queue is stopped.
C2_AdmitsBelowLimit ==
    [][/\ (Returned("push") /\ mQueue' # mQueue)
            => (~mStopping /\ (mLimit = 0 \/ Size < mLimit) /\ mQueue' = Append(mQueue, ret'.arg))
       /\ (Returned("push") /\ mQueue' = mQueue) => mStopping
       /\ \A t \in Threads : (pc'[t] = "push_parked" /\ pc[t] # "push_parked")
            => (~mStopping /\ mLimit # 0 /\ Size >= mLimit)]_vars

C2_Witness ==
    /\ byteAware /\ mLimit # 0
    /\ Size = mLimit /\ Amount > mLimit
    /\ \E t \in Threads : pc[t] = "push_parked"

\* C3: a producer parked in push although the queue has room again (a pop or
\* tryPop made it) completes its push, while the consumer keeps receiving.
C3_BlockedPushCompletes ==
    \A t \in Threads : (pc[t] = "push_parked" /\ PushPredicate) ~> (pc[t] = "idle")

\* C4 (as stated): pop returns none only if the queue is stopped and empty, and
\* otherwise the oldest pushed element still in the queue.
C4_PopOldestPushed ==
    [][Returned("pop") =>
         /\ (ret'.res = NoElem => (mStopping /\ mQueue = <<>>))
         /\ (mQueue # <<>> =>
               /\ ret'.res.via = "push"
               /\ \A i \in 1..Len(mQueue) :
                    mQueue[i].via = "push" => ret'.res.id <= mQueue[i].id)]_vars

\* C4 (amended): pop returns only when the queue is non-empty or stopped; it
\* returns none only if the queue is stopped and empty, and otherwise removes
\* and returns the head: the oldest pushed element still in the queue, or the
\* element exchange put in its place.  Behind the head, the elements are pushed
\* elements in the order of their push.
C4_PopHead ==
    [][Returned("pop") =>
         /\ (mQueue # <<>> \/ mStopping)
         /\ (ret'.res = NoElem <=> mQueue = <<>>)
         /\ (mQueue # <<>> =>
               /\ ret'.res = Head(mQueue)
               /\ mQueue' = Tail(mQueue)
               /\ \A i \in 2..Len(mQueue) :
                    /\ mQueue[i].via = "push"
                    /\ i > 2 => mQueue[i - 1].id < mQueue[i].id
                    /\ ret'.res.via = "push" => ret'.res.id < mQueue[i].id)]_vars

C4_Witness ==
    /\ ret.op = "pop" /\ ret.res.via = "exchange"
    /\ mQueue # <<>> /\ Head(mQueue).id < ret.res.id

C6_ExchangeSwapsHead ==
    [][Returned("exchange") =>
         IF mQueue = <<>>
         THEN ret'.res = NoElem /\ mQueue' = <<>>
         ELSE /\ ret'.res = Head(mQueue)
              /\ Len(mQueue') = Len(mQueue)
              /\ mQueue'[1] = ret'.arg
              /\ \A i \in 2..Len(mQueue) : mQueue'[i] = mQueue[i]]_vars

C6_Witness ==
    /\ ret.op = "exchange" /\ ret.res # NoElem
    /\ Len(mQueue) >= 2 /\ Head(mQueue) = ret.arg

(***************************************************************************)
(* Claims about the synchronized callbacks.                                *)
(***************************************************************************)
Running_(t, s) == \E i \in 1..Len(stack[t]) : stack[t][i].slot = s
InUserCode(t) == stack[t] # <<>>

\* C7: a call made while no callback is installed is stored, a later one
\* replacing it; the stored event is passed to a user function at most once
\* and then cleared, and an event passed to the installed callback is not stored.
C7_StoredDeliveredOnce ==
    /\ \A e \in Events : delivered[e] <= 1
    /\ \A s \in Slots : (owner[s] = 0 /\ stored[s] # 0) => delivered[stored[s]] = 0

\* C8 (as stated): two user functions of the same channel never run on two
\* threads at once.
C8_ChannelSerialized ==
    \A t1, t2 \in CbThreads : (t1 # t2 /\ InUserCode(t1)) => ~InUserCode(t2)

\* C8 (amended): the user functions invoked through one callback object never
\* run on two threads at once, and a callback is replaced or cleared only while
\* no other thread runs a function invoked through it; functions invoked
\* through different callback objects of the channel may overlap.
C8_SlotSerialized ==
    /\ [](\A s \in Slots : \A t1, t2 \in CbThreads :
            (t1 # t2 /\ Running_(t1, s)) => ~Running_(t2, s))
    /\ [][\A s \in Slots : callback'[s] # callback[s] =>
            \A t \in CbThreads : Running_(t, s) => owner'[s] \in {0, t} /\ owner[s] \in {0, t}]_vars

C8_Witness ==
    \E t1, t2 \in CbThreads : \E s1, s2 \in Slots :
        /\ t1 # t2 /\ s1 # s2
        /\ Running_(t1, s1) /\ Running_(t2, s2)
        /\ owner[s1] = t1 /\ owner[s2] = t2

(***************************************************************************)
(* Claims about the callbacks of a WebSocket.                              *)
(***************************************************************************)
\* the step is trigger...() of callback c by thread t
Triggers(t, c) == At(t, "trigger", c) /\ wpc'[t] = Tail(wpc[t])
\* the step runs the user's function installed as callback c
Invokes(c) ==
    \/ \E t \in WsThreads : Triggers(t, c) /\ c \in cbInstalled
    \/ c \in cbStored /\ c \notin cbInstalled /\ c \in cbInstalled'

\* C9: once triggerClosed has been issued, no onOpen, onAvailable or onError
\* callback of the WebSocket is invoked.
C9_ClosedIsLast ==
    [][\A c \in {"open", "available", "error"} : Invokes(c) => "closed" \notin issued]_vars

\* C10: triggerAvailable is issued for a queued data message only after the
\* state has changed to Open and triggerOpen has been issued.
C10_OpenBeforeAvailable ==
    [][\A t \in WsThreads : Triggers(t, "available") => "open" \in issued]_vars

\* the transport of layer l has reported Connected
Reported(l) == phase[l] \in {"Connected", "Disconnected", "Ended"}
\* this step constructs the transport of layer l
Creates(l) == run'[l] = "new" /\ run[l] # "new"

\* C11: the connection is established in layer order: the TLS transport is
\* created only for wss and only after TCP reported Connected, the WebSocket
\* transport only after TCP (ws) or TLS (wss) reported Connected, and the state
\* becomes Open only after the WebSocket transport reported Connected.
C11_LayerOrder ==
    [][/\ Creates("tls") => mIsSecure /\ Reported("tcp")
       /\ Creates("ws") => Reported("tcp") /\ (mIsSecure => Reported("tls"))
       /\ (state' = "Open" /\ state # "Open") => Reported("ws")]_vars
\* a wss connection is Open over its three transports, all Connected
C11_Witness ==
    /\ state = "Open" /\ mIsSecure
    /\ \A l \in Layers : mTransport[l] /\ run[l] = "running" /\ phase[l] = "Connected"

\* C12: outgoing rejects the message, without handing it to the transport,
\* whenever the state is not Open or the size exceeds the maximum message size:
\* a call that does not reject finds the state Open, the WebSocket transport
\* in place and the size within the limit when it hands the message over.
C12_RejectsUnlessOpen ==
    [][(Returned("outgoing") /\ ret'.res.via # "rejected")
          => state = "Open" /\ mTransport["ws"] /\ ret'.arg.size <= MaxMessageSize]_vars

\* C13: receive() and peek() never block: whatever the state of the receive
\* queue, the empty queue included, a call can be made and the call under way
\* can take its step and return; with no data message queued it yields none.
C13_ReceiveNeverBlocks ==
    /\ wpc["user"] = <<>> => ENABLED UserReceive /\ ENABLED UserPeek
    /\ At("user", "receive", "tryPop") => ENABLED ReceiveTryPop("user")
    /\ At("user", "peek", "peek") => ENABLED PeekFront("user")
    /\ (ret.op \in {"receive", "peek"} /\ ret.ok) => ret.res.type \in DataTypes
\* receive has returned none from the empty queue
C13_Witness == ret.op = "receive" /\ ~ret.ok /\ ret.res = NoElem /\ mQueue = <<>>
\* the WebSocket InitRecv starts from: Open over ws, its callbacks installed
Established ==
    /\ state = "Open" /\ ~mIsSecure /\ cbInstalled = Callbacks /\ issued = {"open"}
    /\ \A l \in {"tcp", "ws"} : mTransport[l] /\ run[l] = "running" /\ phase[l] = "Connected"
    /\ \A t \in WsThreads : wpc[t] = <<>>
    /\ mQueue = <<>> /\ cbStored = {} /\ run["tls"] = "none"

Quiescent == (\A t \in WsThreads : wpc[t] = <<>>) /\ poolQueue = <<>>
\* a transport has reported Failed
SomeFailed == \E l \in Layers : phase[l] = "Failed"

\* C15: a lower transport reporting Failed is surfaced through onError before
\* its handler closes the WebSocket, and once everything has settled the
\* WebSocket is in state Closed; onError is triggered by a Failed transport
\* only, never by one reporting Disconnected.
C15_FailureEndsClosed ==
    [][/\ \A l \in Layers :
            (/\ phase[l] = "Failed" /\ state # "Closed" /\ state' = "Closed"
             /\ wpc'[ThreadOf(l)] # wpc[ThreadOf(l)]) => "error" \in issued
       /\ (SomeFailed /\ Quiescent)' => state' = "Closed"
       /\ "error" \in issued' => SomeFailed']_vars

\* C16: open(url) is accepted only in state Closed and only for a URL with
\* scheme ws, wss or none and a non-empty host; otherwise it fails at once and
\* leaves the state and the transports as they were; an accepted call sets the
\* state to Connecting and returns with a TCP transport installed.
C16_OpenAcceptedWhenClosed ==
    [][/\ (wpc["user"] = <<>> /\ Returned("open"))
            => /\ ~ret'.ok /\ (state # "Closed" \/ ~UrlValid(ret'.arg))
               /\ UNCHANGED <<state, mTransport>>
       /\ (wpc["user"] = <<>> /\ wpc'["user"] = <<<<"open", "setConnecting">>>>)
            => state = "Closed" /\ UrlValid(ret'.arg)
       /\ At("user", "open", "setConnecting") /\ wpc'["user"] # wpc["user"]
            => state = "Closed" /\ state' = "Connecting"
       /\ (wpc["user"] # <<>> /\ Returned("open")) => ret'.ok /\ mTransport'["tcp"]]_vars

\* the registry a call looks its handle up in, and all the registries
RegistryOf(op) ==
    CASE op \in {"rtcDeletePeerConnection", "rtcCreateDataChannel", "rtcAddTrack"}
           -> peerConnectionMap
      [] op = "rtcGetDataChannelLabel" -> dataChannelMap
      [] op = "rtcSetUserPointer" -> peerConnectionMap \cup ChannelIds
      [] OTHER -> ChannelIds
Registries == <<peerConnectionMap, dataChannelMap, trackMap, userPointerMap, lastId>>
HandleCalls ==
    {"rtcDeletePeerConnection", "rtcCreateDataChannel", "rtcAddTrack", "rtcDelete",
     "rtcGetDataChannelLabel", "rtcSetUserPointer", "rtcSetMessageCallback",
     "rtcSendMessage", "rtcReceiveMessage"}

\* C17: a C-API call made with a handle that is not registered for the kind of
\* object it needs returns RTC_ERR_INVALID and leaves every registry as it
\* was; a call stopped by another exception returns RTC_ERR_FAILURE.
C17_InvalidHandleRejected ==
    [][\A op \in HandleCalls :
          /\ (Returned(op) /\ ret'.arg.id \notin RegistryOf(op))
                => ret'.res.rc = RTC_ERR_INVALID /\ UNCHANGED Registries
          /\ (Returned(op) /\ ~ret'.ok)
                => ret'.res.rc \in {RTC_ERR_INVALID, RTC_ERR_FAILURE, RTC_ERR_NOT_AVAIL,
                                     RTC_ERR_TOO_SMALL}]_vars

\* C18 as the specification states it: a copy-out call made with size == 0
\* returns the required size, and one with a sufficient buffer copies the
\* value and returns its size.
C18_SizeZeroGivesRequired ==
    [][(Returned("rtcGetDataChannelLabel") /\ ret'.ok)
          => /\ ret'.arg.size = 0 => ret'.res.rc = ret'.arg.len + 1
             /\ (ret'.arg.buffer /\ ret'.arg.size >= ret'.arg.len + 1)
                   => ret'.res.rc = ret'.arg.len + 1 /\ ret'.res.copied]_vars
\* C18, amended: a copy-out call made with a null buffer returns the required
\* size of the value (a string's length plus its terminator) whatever size
\* is; with a non-null buffer smaller than that, size 0 included, it returns
\* RTC_ERR_TOO_SMALL; with a sufficient buffer it copies the value and
\* returns its size.
C18_NullBufferGivesRequired ==
    [][(Returned("rtcGetDataChannelLabel") /\ ret'.ok)
          => LET need == ret'.arg.len + 1 IN
             /\ ~ret'.arg.buffer => ret'.res.rc = need /\ ~ret'.res.copied
             /\ (ret'.arg.buffer /\ ret'.arg.size < need)
                   => ret'.res.rc = RTC_ERR_TOO_SMALL /\ ~ret'.res.copied
             /\ (ret'.arg.buffer /\ ret'.arg.size >= need)
                   => ret'.res.rc = need /\ ret'.res.copied]_vars
\* a label was copied into a buffer larger than it needs
C18_Witness ==
    /\ ret.op = "rtcGetDataChannelLabel" /\ ret.ok /\ ret.res.copied
    /\ ret.arg.size > ret.arg.len + 1 /\ ret.res.rc = ret.arg.len + 1

\* what rtcSendMessage sends for a size
SendsAsSized(r) ==
    /\ r.arg.size < 0 => r.res.sent.type = "String"
    /\ r.arg.size >= 0 => r.res.sent = [type |-> "Binary", len |-> r.arg.size]
\* C19 as the specification states it: a string is signalled by a negative
\* size whose magnitude is its length without the terminator, a binary by its
\* byte count, in the message callback and in rtcReceiveMessage; rtcSendMessage
\* takes size < 0 for a string and size >= 0 for a binary.
C19_StringSizeExcludesTerminator ==
    [][/\ (Returned("messageCallback") \/ (Returned("rtcReceiveMessage") /\ ret'.ok))
            => ret'.res.size = IF ret'.arg.msg.type = "String"
                               THEN 0 - ret'.arg.msg.len ELSE ret'.arg.msg.len
       /\ (Returned("rtcSendMessage") /\ ret'.ok) => SendsAsSized(ret')]_vars
\* C19, amended: a string is signalled by a negative size whose magnitude is
\* its length plus one, the terminator included; the rest as stated.
C19_StringSizeIncludesTerminator ==
    [][/\ (Returned("messageCallback") \/ (Returned("rtcReceiveMessage") /\ ret'.ok))
            => ret'.res.size = IF ret'.arg.msg.type = "String"
                               THEN 0 - (ret'.arg.msg.len + 1) ELSE ret'.arg.msg.len
       /\ (Returned("rtcSendMessage") /\ ret'.ok) => SendsAsSized(ret')]_vars
\* the message callback was given a string of two characters as size -3
C19_Witness ==
    /\ ret.op = "messageCallback" /\ ret.arg.msg = [type |-> "String", len |-> 2]
    /\ ret.res.size = 0 - 3

\* C20: given a buffer too small for the next message, rtcReceiveMessage
\* returns RTC_ERR_TOO_SMALL, sets *size to the size the message requires
\* (negated for a string) and leaves the message at the head of the queue; a
\* message leaves the queue only when it was copied into a non-null buffer.
C20_TooSmallReportsRequired ==
    [][Returned("rtcReceiveMessage")
          => LET m == ret'.arg.msg IN
             /\ ret'.res.rc = RTC_ERR_TOO_SMALL
                   => /\ ret'.res.size = IF m.type = "String"
                                          THEN 0 - Required(m.type, m.len)
                                          ELSE Required(m.type, m.len)
                      /\ UNCHANGED channelQueue
             /\ channelQueue' # channelQueue
                   => ret'.arg.buffer /\ ret'.res.rc = RTC_ERR_SUCCESS]_vars

\* thread t is inside wait()
Waiting(t) == pc[t] \in {"wait_parked", "wait_woken"}

\* C28: wait(timeout) returns true exactly when the queue is non-empty or
\* stopped as it returns, returns false only on a timeout that finds the queue
\* empty and running, returns at once on a non-empty or stopped queue, and
\* never removes or reorders elements.
C28_WaitReportsPredicate ==
    [][/\ Returned("wait")
            => /\ ret'.ok <=> (mQueue # <<>> \/ mStopping)
               /\ ~ret'.ok => \E t \in Threads : Waiting(t) /\ pend[t].timed /\ pc'[t] = "idle"
               /\ UNCHANGED <<mQueue, mAmount>>
       /\ \A t \in Threads :
            (pc[t] = "idle" /\ pc'[t] = "wait_parked")
               => mQueue = <<>> /\ ~mStopping /\ UNCHANGED <<mQueue, mAmount>>]_vars
\* C28 as stated: a timed waiter that has seen the queue non-empty during its
\* wait is never left waiting on the empty running queue, from which its
\* timeout returns false.
C28_TrueOnceNonEmpty ==
    [][\A t \in Threads :
        (Waiting(t) /\ pend[t].timed /\ mQueue # <<>> /\ Waiting(t)')
            => (mQueue' # <<>> \/ mStopping')]_vars
\* a timed wait has returned false from the empty running queue while
\* another thread is still waiting
C28_Witness ==
    /\ ret.op = "wait" /\ ~ret.ok /\ mQueue = <<>> /\ ~mStopping
    /\ \E t \in Threads : Waiting(t)

\* C29: a Queue with limit L > 0 never holds more than L elements, whatever
\* the interleaving of pushers and poppers, pushers released by stop()
\* included; with limit 0 no push ever blocks.
C29_SizeWithinLimit ==
    /\ mLimit > 0 => Len(mQueue) <= mLimit
    /\ mLimit = 0 => \A t \in Threads : pc[t] \notin {"push_parked", "push_woken"}
\* stop() has released a pusher of the full queue, whose push was discarded
C29_Witness ==
    /\ mLimit > 0 /\ Len(mQueue) = mLimit /\ mStopping
    /\ ret.op = "push" /\ \A i \in 1..Len(mQueue) : mQueue[i].id # ret.arg.id

\* C30: after stop() every push is discarded and leaves contents and amount
\* unchanged, the elements queued are still handed out by pop and tryPop from
\* the head on, and running() is true exactly while the queue is not stopped
\* or still holds an element.
C30_StoppedDiscardsPush ==
    [][/\ (Returned("push") /\ mStopping) => UNCHANGED <<mQueue, mAmount>>
       /\ ((Returned("pop") \/ Returned("tryPop")) /\ mStopping /\ mQueue # <<>>)
            => ret'.res = Head(mQueue) /\ mQueue' = Tail(mQueue)
       /\ Running' <=> (~mStopping' \/ Len(mQueue') > 0)]_vars
\* an element queued before stop() has been popped from the stopped queue
\* that still holds another
C30_Witness ==
    /\ mStopping /\ ret.op \in {"pop", "tryPop"} /\ ret.res # NoElem /\ mQueue # <<>>
\* C21: every handle an emplace function returns is positive and greater than
\* every handle returned before it, whatever the kind of the object, and so
\* is never reused after an erase or eraseAll.
C21_HandlesIncrease ==
    \A k \in 1..Len(returned) :
        /\ returned[k] > 0
        /\ \A j \in 1..(k - 1) : returned[j] < returned[k]
\* C22: rtcSetSignalingStateChangeCallback(pc, cb) installs cb in, and with
\* cb == NULL clears, the signaling-state slot of pc only; the gathering-state
\* callbacks stay as rtcSetGatheringStateChangeCallback left them.
C22_SignalingOwnSlot ==
    [][(Returned("rtcSetSignalingStateChangeCallback") /\ ret'.ok)
        => /\ SlotOf(pcCallbacks', ret'.arg.id, "signaling")
                = (IF ret'.arg.cb = 0 THEN {} ELSE {ret'.arg.cb})
           /\ \A q \in Ids : SlotOf(pcCallbacks', q, "gathering")
                                = SlotOf(pcCallbacks, q, "gathering")]_vars

\* C23: a track added by rtcAddTrackEx with RTC_CODEC_VP9 carries the VP9
\* codec for its payload type; the call never registers VP8 in its place.
C23_Vp9RegistersVp9 ==
    (ret.op = "rtcAddTrackEx" /\ ret.ok /\ ret.arg.codec = "VP9")
        => \E e \in created : e.id = ret.res.rc /\ e.rtpMap = "VP9"
                              /\ e.payloadType = ret.arg.payloadType

\* C25: rtcGetDataChannelReliability on a channel created by
\* rtcCreateDataChannelEx with reliability r returns r's unordered and
\* unreliable flags and the parameter of the one kind chosen: Reliable when r
\* is not unreliable, Timed with r.maxPacketLifeTime when that is positive,
\* Rexmit with r.maxRetransmits otherwise; at any time after creation.
C25_ReliabilityRoundTrip ==
    [][(Returned("rtcGetDataChannelReliability") /\ ret'.ok)
        => \A e \in created :
             (e.id = ret'.arg.id /\ e.hasInit)
                => LET r == e.init
                       g == ret'.res.reliability
                   IN  /\ g.unordered = r.unordered /\ g.unreliable = r.unreliable
                       /\ ~r.unreliable => e.reliability.type = "Reliable"
                       /\ (r.unreliable /\ r.maxPacketLifeTime > 0)
                            => /\ e.reliability.type = "Timed"
                               /\ g.maxPacketLifeTime = r.maxPacketLifeTime
                       /\ (r.unreliable /\ r.maxPacketLifeTime <= 0)
                            => /\ e.reliability.type = "Rexmit"
                               /\ g.maxRetransmits = r.maxRetransmits]_vars
\* an unordered channel with a packet lifetime was read back after a state
\* callback had been set on its peer connection
C25_Witness ==
    /\ ret.op = "rtcGetDataChannelReliability" /\ ret.ok
    /\ ret.res.reliability.unordered /\ ret.res.reliability.maxPacketLifeTime = MaxLifetime
    /\ pcCallbacks # {}
\* stream s goes from above its low threshold to at or below it in this step
Crossing(s) ==
    mBufferedAmount[s] > lowThreshold[s] /\ mBufferedAmount'[s] <= lowThreshold[s]

C27_ReportEverySecond ==
    [][Returned("onSample")
        => (U32Ge(ret'.res.elapsed, rtpConfig.clockRate) => ret'.res.requested)]_vars

C31_FullIffPushBlocks ==
    /\ ~mStopping => (Full <=> ~PushPredicate)
    /\ mLimit = 0 => ~Full
\* C32: once close() has moved the state to Closing, or the state is Closed,
\* the WebSocket does not enter Open: Open is entered from Connecting only.
C32_OpenOnlyFromConnecting ==
    [][(state' = "Open" /\ state # "Open") => state = "Connecting"]_vars
\* no handler is under way and no transport has an event left to report
Settled ==
    /\ Quiescent
    /\ \A l \in Layers : run[l] = "running" => phase[l] \in {"Failed", "Disconnected", "Ended"}

\* C33: a WebSocket that was opened and has come to rest in state Closed has
\* triggered onClosed, holds no transport in any of its three slots and has
\* no transport left running.
C33_ClosedClearsTransports ==
    (Settled /\ state = "Closed" /\ \E l \in Layers : run[l] # "none")
        => /\ "closed" \in issued
           /\ \A l \in Layers : ~mTransport[l] /\ run[l] \in {"none", "stopped"}

\* thread t takes the step at position <<l, s>> of a transport initialisation
Takes(t, l, s) == At(t, l, s) /\ wpc'[t] # wpc[t]

C35_UserPointersMatchRegistry ==
    userPointerMap = peerConnectionMap \cup dataChannelMap \cup trackMap
                         \cup webSocketMap \cup webSocketServerMap

Discards(t) == receiving[t].at = "receive" /\ receiving'[t].at = "idle" /\ receiving[t].buffer

\* C37: the message a caller of rtcReceiveMessage removes from the receive
\* queue is the message that was copied to that caller.
C37_RemovesWhatItCopied ==
    [][\A t \in Callers :
          Discards(t) => /\ channelQueue[receiving[t].id] # <<>>
                         /\ Head(channelQueue[receiving[t].id]) = receiving[t].msg]_vars

\* C38: the handler and the RTP configuration registered for a track are the
\* ones of the handler the track uses, and the media registries have entries
\* for registered tracks only.
C38_RegistryIsInstalledHandler ==
    \A tr \in Ids :
        /\ (tr \in trackMap /\ mMediaHandler[tr] # 0)
              => /\ rtcpChainableHandlerMap[tr] = mMediaHandler[tr]
                 /\ rtpConfigMap[tr] = mMediaHandler[tr]
        /\ (rtcpChainableHandlerMap[tr] # 0 \/ rtpConfigMap[tr] # 0) => tr \in trackMap

\* C39: once the onDataChannel / onTrack lambda has returned, every handle it
\* registered that is still registered was passed to the user's callback.
C39_IncomingHandlesReported ==
    onChannel.at = "idle"
        => (onChannel.emplaced \cap (dataChannelMap \cup trackMap)) \subseteq onChannel.reported

\* C40: a client of the streamer is Ready only after both its video and its
\* audio track have opened; it leaves Waiting for WaitingForAudio on video and
\* for WaitingForVideo on audio, becomes Ready only from one of these two on
\* the other kind, and an open of the kind already seen changes nothing; the
\* start time is set once, on the step to Ready; startStream is called for a
\* client in state Ready only.
C40_ReadyAfterBothTracks ==
    /\ [](\A c \in Clients :
            /\ (clients[c].state = "Ready")
                  => (clients[c].videoOpens >= 1 /\ clients[c].audioOpens >= 1)
            /\ clients[c].startTimes = (IF clients[c].state = "Ready" THEN 1 ELSE 0))
    /\ [][\A c \in Clients :
            LET old == clients[c].state
                new == clients'[c].state
                video == clients'[c].videoOpens > clients[c].videoOpens
            IN /\ (new # old)
                    => \/ old = "Waiting" /\ new = (IF video THEN "WaitingForAudio"
                                                     ELSE "WaitingForVideo")
                       \/ old = "WaitingForAudio" /\ ~video /\ new = "Ready"
                       \/ old = "WaitingForVideo" /\ video /\ new = "Ready"
               /\ (old = "WaitingForAudio" /\ video) => (new = old)
               /\ (old = "WaitingForVideo" /\ ~video /\ clients'[c] # clients[c]) => (new = old)
               /\ (Returned("startStream") /\ ret'.arg.id = c) => (new = "Ready")]_vars

\* a client became Ready although its video track had reported open twice
C40_Witness ==
    \E c \in Clients : /\ clients[c].state = "Ready" /\ clients[c].startTimes = 1
                        /\ clients[c].videoOpens = 2 /\ clients[c].audioOpens = 1
                        /\ ret.op = "startStream" /\ isRunning

====
